---------------------------- MODULE Spec2Model ----------------------------
(***************************************************************************)
(* Verification model of ghmark675/motion-tracker: the repetition counter  *)
(* (MotionAnalyzer.detect_rep_count and ExerciseTracker.update), the       *)
(* bounded motion history, the DTW matcher and the dance coach session.    *)
(***************************************************************************)
EXTENDS Integers, Sequences, FiniteSets, TLC

None == <<>>

(***************************************************************************)
(* Bounds of the model.                                                    *)
(***************************************************************************)
MaxAngles == 9          \* longest angle stream fed to the rep counters
MaxMinFrames == 2       \* largest min_frames drawn
MaxDtwLen == 4          \* longest sequence handed to the DTW matcher alone
MaxBuffer == 3          \* largest buffer_size of the motion analyzer
MaxUpdates == 5         \* most MotionAnalyzer.update calls between clears
ExtraFrames == 0        \* frames a sequence may hold beyond MinCompareFrames
VaryFrames == 1         \* leading frames of a sequence whose pose is free;
                        \* the later frames hold the pose of the one before
MaxStoreFrames == 3     \* most frames of a sequence saved and loaded back
MaxScoreLen == 4        \* longest sequence length handed to normalize_score
MaxCoord == 2           \* largest coordinate of a point handed to
                        \* calculate_angle_3points

\* Angle values of the sequences handed to the DTW matcher.
DtwAngles == {0, 45, 180}

\* Angle values fed to the repetition counters, and the threshold pairs
\* <<threshold_low, threshold_high>> the counters are configured with.
RepAngles == {50, 80, 100}
RepThresholds == {<<60, 90>>, <<80, 80>>}

VARIABLES
    angles,             \* MotionAnalyzer.angle_history[joint], as fed
    threshold_low,      \* configuration of both counters
    threshold_high,
    min_frames,
    tracker,            \* ExerciseTracker: state, last_state_change, rep_count
    batch_reps,         \* last value returned by detect_rep_count
    dwell,              \* history: frames the tracker spent in its state
    seq1,               \* DTWMatcher.dtw_distance: first sequence
    seq2,               \* DTWMatcher.dtw_distance: second sequence
    dtw_out,            \* distance and score of the last call, or None
    buffer_size,        \* MotionAnalyzer.buffer_size
    pose_history,       \* MotionAnalyzer.pose_history (deque)
    angle_history,      \* MotionAnalyzer.angle_history: joint -> deque
    fed,                \* history: the poses handed to update, in order
    reference,          \* DanceCoach.reference: None or a DanceSequence
    current,            \* DanceCoach.current: None or a DanceSequence
    file,               \* dance_reference.pkl: None or the pickled data
    op,                 \* the coach operation that ran last
    results,            \* what the last compare_sequences returned
    recorded,           \* history: the frames appended since
                        \* start_recording_reference, None outside one
    test_sequence,      \* the DanceSequence a test builds and saves
    loaded,             \* what DanceSequence.load returned, or None
    recording_reference, \* main: recording_reference
    practicing,         \* main: practicing
    start_time,         \* main: start_time, None or a clock reading
    pc,                 \* main: "loop", "returned", or the exception
                        \* that ended it; "idle" while main does not run
    call,               \* a function called on its own: name and arguments
    ret                 \* what that call returned or raised, None before it

repVars == <<angles, threshold_low, threshold_high, min_frames, tracker,
             batch_reps, dwell>>

dtwVars == <<seq1, seq2, dtw_out>>

analyzerVars == <<buffer_size, pose_history, angle_history, fed>>

coachVars == <<reference, current, file, op, results, recorded>>

storeVars == <<test_sequence, loaded>>

mainVars == <<recording_reference, practicing, start_time, pc>>

callVars == <<call, ret>>

sessionVars == <<storeVars, mainVars, callVars>>

vars == <<repVars, dtwVars, analyzerVars, coachVars, sessionVars>>

\* An optional value: None, or Some(x) holding x.
Some(x) == <<x>>
The(o) == o[1]

\* A call that returned `value`, and a call that raised `exception`.
Returned(value) == [raised |-> None, value |-> Some(value)]
Raised(exception) == [raised |-> Some(exception), value |-> None]

(***************************************************************************)
(* MotionAnalyzer.detect_rep_count: the batch replay of the history.       *)
(***************************************************************************)
\* Loop state before the first angle (motion_analyzer.py lines 104-106).
RepLoopInit == [state |-> "idle", frames_in_state |-> 0, reps |-> 0]

\* RepStep with the count taken on the low -> high transition.
RepStepCountsOnHigh(s, angle, lo, hi, mf) ==
    CASE s.state = "idle" ->
           IF angle <= lo
             THEN [s EXCEPT !.state = "low", !.frames_in_state = 1]
             ELSE s
      [] s.state = "low" ->
           IF angle >= hi
             THEN IF s.frames_in_state >= mf
                    THEN [state |-> "high", frames_in_state |-> 1,
                          reps |-> s.reps + 1]
                    ELSE [s EXCEPT !.state = "idle", !.frames_in_state = 0]
             ELSE [s EXCEPT !.frames_in_state = s.frames_in_state + 1]
      [] s.state = "high" ->
           IF angle <= lo
             THEN IF s.frames_in_state >= mf
                    THEN [s EXCEPT !.state = "low", !.frames_in_state = 1]
                    ELSE [s EXCEPT !.state = "idle", !.frames_in_state = 0]
             ELSE [s EXCEPT !.frames_in_state = s.frames_in_state + 1]

\* RepStep without the dwell check on leaving "low".
RepStepNoDebounce(s, angle, lo, hi, mf) ==
    CASE s.state = "idle" ->
           IF angle <= lo
             THEN [s EXCEPT !.state = "low", !.frames_in_state = 1]
             ELSE s
      [] s.state = "low" ->
           IF angle >= hi
             THEN [s EXCEPT !.state = "high", !.frames_in_state = 1]
             ELSE [s EXCEPT !.frames_in_state = s.frames_in_state + 1]
      [] s.state = "high" ->
           IF angle <= lo
             THEN [state |-> "low", frames_in_state |-> 1,
                   reps |-> s.reps + 1]
             ELSE [s EXCEPT !.frames_in_state = s.frames_in_state + 1]

\* RepStep that enters "high" without restarting frames_in_state.
RepStepKeepsFrameCount(s, angle, lo, hi, mf) ==
    CASE s.state = "idle" ->
           IF angle <= lo
             THEN [s EXCEPT !.state = "low", !.frames_in_state = 1]
             ELSE s
      [] s.state = "low" ->
           IF angle >= hi
             THEN IF s.frames_in_state >= mf
                    THEN [s EXCEPT !.state = "high"]
                    ELSE [s EXCEPT !.state = "idle", !.frames_in_state = 0]
             ELSE [s EXCEPT !.frames_in_state = s.frames_in_state + 1]
      [] s.state = "high" ->
           IF angle <= lo
             THEN IF s.frames_in_state >= mf
                    THEN [state |-> "low", frames_in_state |-> 1,
                          reps |-> s.reps + 1]
                    ELSE [s EXCEPT !.state = "idle", !.frames_in_state = 0]
             ELSE [s EXCEPT !.frames_in_state = s.frames_in_state + 1]

\* One iteration of the loop body over `angle`.
RepStep(s, angle, lo, hi, mf) ==
    CASE s.state = "idle" ->
           IF angle <= lo
             THEN [s EXCEPT !.state = "low", !.frames_in_state = 1]
             ELSE s
      [] s.state = "low" ->
           IF angle >= hi
             THEN IF s.frames_in_state >= mf
                    THEN [s EXCEPT !.state = "high", !.frames_in_state = 1]
                    ELSE [s EXCEPT !.state = "idle", !.frames_in_state = 0]
             ELSE [s EXCEPT !.frames_in_state = s.frames_in_state + 1]
      [] s.state = "high" ->
           IF angle <= lo
             THEN IF s.frames_in_state >= mf
                    THEN [state |-> "low", frames_in_state |-> 1,
                          reps |-> s.reps + 1]
                    ELSE [s EXCEPT !.state = "idle", !.frames_in_state = 0]
             ELSE [s EXCEPT !.frames_in_state = s.frames_in_state + 1]

\* The loop state after the first n angles of `as`.
RECURSIVE RepLoop(_, _, _, _, _)
RepLoop(as, n, lo, hi, mf) ==
    IF n = 0 THEN RepLoopInit
    ELSE RepStep(RepLoop(as, n - 1, lo, hi, mf), as[n], lo, hi, mf)

\* detect_rep_count on the history `as` (an absent joint has no history).
DetectRepCount(as, lo, hi, mf) ==
    IF Len(as) < mf * 2 THEN 0
    ELSE RepLoop(as, Len(as), lo, hi, mf).reps

(***************************************************************************)
(* ExerciseTracker: the per-frame counter of the fitness trainer.          *)
(***************************************************************************)
TrackerInit == [state |-> "idle", last_state_change |-> 0, rep_count |-> 0]

\* TrackerUpdate that counts on every return to the low threshold, whatever
\* the time spent in "up".
TrackerUpdateCountsWithoutDwell(t, angle, lo, hi, mf) ==
    CASE t.state = "idle" ->
           IF angle <= lo
             THEN [t EXCEPT !.state = "down", !.last_state_change = 0]
             ELSE t
      [] t.state = "down" ->
           IF angle >= hi
             THEN IF t.last_state_change >= mf
                    THEN [t EXCEPT !.state = "up", !.last_state_change = 0]
                    ELSE [t EXCEPT !.state = "idle"]
             ELSE [t EXCEPT !.last_state_change = t.last_state_change + 1]
      [] t.state = "up" ->
           IF angle <= lo
             THEN [state |-> "down", last_state_change |-> 0,
                   rep_count |-> t.rep_count + 1]
             ELSE [t EXCEPT !.last_state_change = t.last_state_change + 1]

\* ExerciseTracker.update on a present angle (the state machine part).
TrackerUpdate(t, angle, lo, hi, mf) ==
    CASE t.state = "idle" ->
           IF angle <= lo
             THEN [t EXCEPT !.state = "down", !.last_state_change = 0]
             ELSE t
      [] t.state = "down" ->
           IF angle >= hi
             THEN IF t.last_state_change >= mf
                    THEN [t EXCEPT !.state = "up", !.last_state_change = 0]
                    ELSE [t EXCEPT !.state = "idle"]
             ELSE [t EXCEPT !.last_state_change = t.last_state_change + 1]
      [] t.state = "up" ->
           IF angle <= lo
             THEN IF t.last_state_change >= mf
                    THEN [state |-> "down", last_state_change |-> 0,
                          rep_count |-> t.rep_count + 1]
                    ELSE [t EXCEPT !.state = "idle"]
             ELSE [t EXCEPT !.last_state_change = t.last_state_change + 1]

\* ExerciseTracker.reset.
TrackerReset(t) ==
    [t EXCEPT !.rep_count = 0, !.state = "idle", !.last_state_change = 0]

\* History of the tracker's run: frames spent in the present state (the
\* frame that entered it included), and whether it ever left "down" for the
\* high threshold, or "up" for the low one, after at least min_frames frames.
DwellInit == [frames |-> 0, low |-> FALSE, high |-> FALSE]

DwellStep(d, t, angle, lo, hi, mf) ==
    LET t2 == TrackerUpdate(t, angle, lo, hi, mf) IN
    [frames |-> IF t2.state = "idle" THEN 0
                ELSE IF t2.state = t.state /\ t2.rep_count = t.rep_count
                       THEN d.frames + 1 ELSE 1,
     low  |-> d.low \/ (t.state = "down" /\ angle >= hi /\ d.frames >= mf),
     high |-> d.high \/ (t.state = "up" /\ angle <= lo /\ d.frames >= mf)]


(***************************************************************************)
(* Numbers.  Python floats are modelled as exact values: a distance is a   *)
(* natural number or +infinity, a score or a length is a rational in       *)
(* lowest terms.                                                           *)
(***************************************************************************)
Inf == [inf |-> TRUE, val |-> 0]
Fin(v) == [inf |-> FALSE, val |-> v]

ExtAdd(c, x) == IF x.inf THEN Inf ELSE Fin(c + x.val)

ExtMin(x, y) ==
    IF x.inf THEN y
    ELSE IF y.inf THEN x
    ELSE IF x.val <= y.val THEN x ELSE y

Abs(x) == IF x < 0 THEN -x ELSE x

RECURSIVE GCD(_, _)
GCD(a, b) == IF b = 0 THEN a ELSE GCD(b, a % b)

\* num/den in lowest terms, den > 0.
Rat(num, den) ==
    LET g == GCD(Abs(num), den) IN [num |-> num \div g, den |-> den \div g]

RatInt(n) == [num |-> n, den |-> 1]

RatLeq(x, y) == x.num * y.den <= y.num * x.den

(***************************************************************************)
(* Poses and the joint topology.  A pose is known by the keypoints that    *)
(* are usable in it (present, visibility >= 0.5) and by the angle its      *)
(* geometry gives at each joint.                                           *)
(***************************************************************************)
\* AngleCalculator.JOINT_DEFINITIONS: joint -> <<point_a, vertex, point_c>>.
JOINT_DEFINITIONS ==
    [left_elbow     |-> <<"left_shoulder", "left_elbow", "left_wrist">>,
     right_elbow    |-> <<"right_shoulder", "right_elbow", "right_wrist">>,
     left_shoulder  |-> <<"left_elbow", "left_shoulder", "left_hip">>,
     right_shoulder |-> <<"right_elbow", "right_shoulder", "right_hip">>,
     left_wrist     |-> <<"left_elbow", "left_wrist", "left_index">>,
     right_wrist    |-> <<"right_elbow", "right_wrist", "right_index">>,
     left_hip       |-> <<"left_shoulder", "left_hip", "left_knee">>,
     right_hip      |-> <<"right_shoulder", "right_hip", "right_knee">>,
     left_knee      |-> <<"left_hip", "left_knee", "left_ankle">>,
     right_knee     |-> <<"right_hip", "right_knee", "right_ankle">>,
     left_ankle     |-> <<"left_knee", "left_ankle", "left_foot_index">>,
     right_ankle    |-> <<"right_knee", "right_ankle", "right_foot_index">>]

Joints == DOMAIN JOINT_DEFINITIONS

Keypoints == UNION {{JOINT_DEFINITIONS[j][i] : i \in 1..3} : j \in Joints}

\* The poses the camera delivers: standing in full view, arms raised in
\* full view, and bent with the left arm out of view.
PoseIds == {"stand", "raise", "bend"}

PoseResult(id) ==
    CASE id = "stand" ->
           [usable |-> Keypoints, angle |-> [j \in Joints |-> 170]]
      [] id = "raise" ->
           [usable |-> Keypoints,
            angle |-> [j \in Joints |->
                         IF j \in {"left_shoulder", "right_shoulder"}
                           THEN 150 ELSE 170]]
      [] id = "bend" ->
           [usable |-> Keypoints \ {"left_elbow", "left_wrist", "left_index"},
            angle |-> [j \in Joints |-> 90]]

\* AngleCalculator.calculate_joint_angle for a joint of the table: None
\* when one of its three keypoints is not usable.
CalculateJointAngle(pose, joint) ==
    IF \A i \in 1..3 : JOINT_DEFINITIONS[joint][i] \in pose.usable
      THEN Some(pose.angle[joint])
      ELSE None

\* AngleCalculator.calculate_all_angles: one entry per joint of the table.
CalculateAllAngles(pose) ==
    [j \in Joints |-> CalculateJointAngle(pose, j)]

(***************************************************************************)
(* Keypoints and the geometry of AngleCalculator.  Coordinates are         *)
(* integers (hundredths), visibility is in tenths, and an angle is known   *)
(* to the resolution of AngleTable.                                        *)
(***************************************************************************)
\* Keypoint(name, x, y, z, visibility, presence, world_x, world_y, world_z);
\* a world coordinate is None or Some(value).
Keypoint(name, x, y, z, visibility, world_x, world_y, world_z) ==
    [name |-> name, x |-> x, y |-> y, z |-> z, visibility |-> visibility,
     world_x |-> world_x, world_y |-> world_y, world_z |-> world_z]

\* Keypoint.world_coords.
WorldCoords(kp) ==
    IF kp.world_x # None /\ kp.world_y # None /\ kp.world_z # None
      THEN Some(<<The(kp.world_x), The(kp.world_y), The(kp.world_z)>>)
      ELSE None

\* PoseResult.get_keypoint: the first keypoint of that name, or None.
GetKeypoint(pose_result, name) ==
    LET hits == {i \in 1..Len(pose_result.keypoints) :
                   pose_result.keypoints[i].name = name}
    IN  IF hits = {} THEN None
        ELSE Some(pose_result.keypoints[
                    CHOOSE i \in hits : \A k \in hits : i <= k])

\* PoseResult.get_keypoints_by_names.
GetKeypointsByNames(pose_result, names) ==
    [i \in 1..Len(names) |-> GetKeypoint(pose_result, names[i])]

\* The visibility, in tenths, from which a keypoint is usable (0.5).
MinVisibility == 5

\* get_keypoint_coords that hands out world coordinates whenever they are
\* requested, whatever use_3d says.
GetKeypointCoordsWorldFirst(use_3d, keypoint, use_world) ==
    IF keypoint = None THEN None
    ELSE IF The(keypoint).visibility < MinVisibility THEN None
    ELSE IF use_world /\ WorldCoords(The(keypoint)) # None
      THEN WorldCoords(The(keypoint))
    ELSE IF use_3d
      THEN Some(<<The(keypoint).x, The(keypoint).y, The(keypoint).z>>)
    ELSE Some(<<The(keypoint).x, The(keypoint).y>>)

\* get_keypoint_coords that does not look at the visibility.
GetKeypointCoordsAnyVisibility(use_3d, keypoint, use_world) ==
    IF keypoint = None THEN None
    ELSE IF use_3d /\ use_world /\ WorldCoords(The(keypoint)) # None
      THEN WorldCoords(The(keypoint))
    ELSE IF use_3d
      THEN Some(<<The(keypoint).x, The(keypoint).y, The(keypoint).z>>)
    ELSE Some(<<The(keypoint).x, The(keypoint).y>>)

\* AngleCalculator.get_keypoint_coords; keypoint is None or Some(keypoint).
GetKeypointCoords(use_3d, keypoint, use_world) ==
    IF keypoint = None THEN None
    ELSE IF The(keypoint).visibility < MinVisibility THEN None
    ELSE IF use_3d /\ use_world /\ WorldCoords(The(keypoint)) # None
      THEN WorldCoords(The(keypoint))
    ELSE IF use_3d
      THEN Some(<<The(keypoint).x, The(keypoint).y, The(keypoint).z>>)
    ELSE Some(<<The(keypoint).x, The(keypoint).y>>)

\* a - b and np.dot(a, b) on coordinate arrays.
RECURSIVE Dot(_, _)
Dot(u, v) == IF u = <<>> THEN 0 ELSE Head(u) * Head(v) + Dot(Tail(u), Tail(v))

Minus(a, b) == [i \in 1..Len(a) |-> a[i] - b[i]]

\* A float that is not a number, and one that is: sign * sqrt(square),
\* which rounding has pushed `excess` units in the last place away from 0.
NaN == [nan |-> TRUE, sign |-> 0, square |-> RatInt(0), excess |-> 0]
Root(sign, square, excess) ==
    [nan |-> FALSE, sign |-> sign, square |-> square, excess |-> excess]

Sign(x) == IF x < 0 THEN -1 ELSE IF x > 0 THEN 1 ELSE 0

\* np.dot(ba, bc) / (norm(ba) * norm(bc)) with nothing added to the divisor.
CosineNoEpsilon(ba, bc, rounding) ==
    LET dot == Dot(ba, bc)
        norms == Dot(ba, ba) * Dot(bc, bc)
    IN  IF norms = 0 THEN NaN
        ELSE Root(Sign(dot), Rat(dot * dot, norms), rounding)

\* np.dot(ba, bc) / (norm(ba) * norm(bc) + 1e-8).  The 1e-8 decides the
\* quotient when a vector has length 0 and is below the resolution of the
\* model otherwise; `rounding` is the error of the float division.
Cosine(ba, bc, rounding) ==
    LET dot == Dot(ba, bc)
        norms == Dot(ba, ba) * Dot(bc, bc)
    IN  IF norms = 0 THEN Root(0, RatInt(0), 0)
        ELSE Root(Sign(dot), Rat(dot * dot, norms), rounding)

\* np.clip(cosine, -1.0, 1.0).
Clip(cosine) ==
    IF cosine.nan THEN cosine
    ELSE IF RatLeq(RatInt(1), cosine.square)
      THEN Root(cosine.sign, RatInt(1), 0)
    ELSE cosine

\* Angles whose squared cosine is rational, with that squared cosine.
AngleTable ==
    <<[deg |-> 0, square |-> Rat(1, 1)], [deg |-> 30, square |-> Rat(3, 4)],
      [deg |-> 45, square |-> Rat(1, 2)], [deg |-> 60, square |-> Rat(1, 4)],
      [deg |-> 90, square |-> Rat(0, 1)], [deg |-> 120, square |-> Rat(1, 4)],
      [deg |-> 135, square |-> Rat(1, 2)], [deg |-> 150, square |-> Rat(3, 4)],
      [deg |-> 180, square |-> Rat(1, 1)]>>

\* np.degrees(np.arccos(cosine)), rounded down to an angle of AngleTable;
\* NaN when the cosine is NaN or lies outside [-1, 1].
ArccosDegrees(cosine) ==
    IF cosine.nan THEN NaN
    ELSE IF RatLeq(RatInt(1), cosine.square)
            /\ (cosine.square # RatInt(1) \/ cosine.excess > 0)
      THEN NaN
    ELSE LET below ==
               {i \in 1..Len(AngleTable) :
                  IF AngleTable[i].deg <= 90
                    THEN cosine.sign < 0
                         \/ RatLeq(cosine.square, AngleTable[i].square)
                    ELSE cosine.sign < 0
                         /\ RatLeq(AngleTable[i].square, cosine.square)}
             top == CHOOSE i \in below :
                       \A k \in below : AngleTable[k].deg <= AngleTable[i].deg
         IN  [nan |-> FALSE, deg |-> AngleTable[top].deg]

\* AngleCalculator.calculate_angle_3points.
CalculateAngle3Points(a, b, c, rounding) ==
    ArccosDegrees(Clip(Cosine(Minus(a, b), Minus(c, b), rounding)))

\* AngleCalculator.calculate_angle_from_keypoints: None, or Some(angle).
CalculateAngleFromKeypoints(use_3d, keypoints, use_world) ==
    LET coords == [i \in 1..Len(keypoints) |->
                     GetKeypointCoords(use_3d, keypoints[i], use_world)]
    IN  IF \E i \in 1..Len(coords) : coords[i] = None THEN None
        ELSE Some(CalculateAngle3Points(The(coords[1]), The(coords[2]),
                                        The(coords[3]), 0))

\* AngleCalculator.calculate_joint_angle on a pose given by its keypoints:
\* what it raises, or what it returns.
JointAngle(use_3d, pose_result, joint, use_world) ==
    IF joint \notin DOMAIN JOINT_DEFINITIONS
      THEN [raised |-> Some("ValueError"), value |-> None]
      ELSE [raised |-> None,
            value |-> Some(CalculateAngleFromKeypoints(
                             use_3d,
                             GetKeypointsByNames(pose_result,
                                                 JOINT_DEFINITIONS[joint]),
                             use_world))]

\* The keys of JOINT_DEFINITIONS in the order of the dict.
JointOrder ==
    <<"left_elbow", "right_elbow", "left_shoulder", "right_shoulder",
      "left_wrist", "right_wrist", "left_hip", "right_hip",
      "left_knee", "right_knee", "left_ankle", "right_ankle">>

\* calculate_all_angles whose loop ends at the first joint that fails: the
\* joints after it get no entry.
AllAnglesStopAtFailure(use_3d, pose_result, use_world) ==
    LET failed(i) ==
          LET r == JointAngle(use_3d, pose_result, JointOrder[i], use_world)
          IN  r.raised # None \/ The(r.value) = None
        kept == {i \in 1..Len(JointOrder) : \A k \in 1..i : ~failed(k)}
    IN  [joint_name \in {JointOrder[i] : i \in kept} |->
           The(JointAngle(use_3d, pose_result, joint_name, use_world).value)]

\* AngleCalculator.calculate_all_angles on a pose given by its keypoints:
\* the dict angles, an exception of a joint becoming None.
AllAngles(use_3d, pose_result, use_world) ==
    [joint_name \in {JointOrder[i] : i \in 1..Len(JointOrder)} |->
       LET r == JointAngle(use_3d, pose_result, joint_name, use_world) IN
       IF r.raised # None THEN None ELSE The(r.value)]

\* np.degrees(np.arctan2(y, x)), rounded toward 0 to a multiple of 45.
Arctan2Degrees(y, x) ==
    LET ay == Abs(y)
        ax == Abs(x)
        magnitude ==
          IF ay = 0 THEN (IF x < 0 THEN 180 ELSE 0)
          ELSE IF x > 0 THEN (IF ay < ax THEN 0 ELSE 45)
          ELSE IF x = 0 THEN 90
          ELSE IF ay > ax THEN 90 ELSE 135
    IN  IF y < 0 THEN -magnitude ELSE magnitude

\* AngleCalculator.get_midpoint, twice: kp1 + kp2 in place of (kp1 + kp2) / 2,
\* so that the coordinates stay integers.
GetMidpointTwice(kp1, kp2) ==
    IF kp1 = None \/ kp2 = None THEN None
    ELSE IF WorldCoords(The(kp1)) # None /\ WorldCoords(The(kp2)) # None
      THEN Some([i \in 1..3 |-> The(WorldCoords(The(kp1)))[i]
                                  + The(WorldCoords(The(kp2)))[i]])
    ELSE Some(<<The(kp1).x + The(kp2).x, The(kp1).y + The(kp2).y,
                The(kp1).z + The(kp2).z>>)

\* AngleCalculator.calculate_head_tilt.
CalculateHeadTilt(pose_result) ==
    LET ears == <<GetKeypoint(pose_result, "left_ear"),
                  GetKeypoint(pose_result, "right_ear")>>
        pair == IF ears[1] = None \/ ears[2] = None
                  THEN <<GetKeypoint(pose_result, "left_eye"),
                         GetKeypoint(pose_result, "right_eye")>>
                  ELSE ears
    IN  IF pair[1] # None /\ pair[2] # None
          THEN LET dx == The(pair[2]).x - The(pair[1]).x
                   dy == The(pair[2]).y - The(pair[1]).y
                   angle == Arctan2Degrees(dy, dx)
               IN  Some(IF Abs(angle) < 90 THEN angle
                        ELSE IF angle > 0 THEN angle - 180 ELSE angle + 180)
          ELSE None

\* AngleCalculator.calculate_neck_angle.
CalculateNeckAngle(use_3d, pose_result, use_world) ==
    LET nose == GetKeypoint(pose_result, "nose")
        left_shoulder == GetKeypoint(pose_result, "left_shoulder")
        right_shoulder == GetKeypoint(pose_result, "right_shoulder")
        left_ear == GetKeypoint(pose_result, "left_ear")
        right_ear == GetKeypoint(pose_result, "right_ear")
        shoulder_mid == GetMidpointTwice(left_shoulder, right_shoulder)
        nose_coords == GetKeypointCoords(use_3d, nose, use_world)
        head_point ==
          IF left_ear # None /\ right_ear # None
            THEN GetMidpointTwice(left_ear, right_ear)
          ELSE IF nose_coords # None
            THEN Some([i \in 1..Len(The(nose_coords)) |->
                         2 * The(nose_coords)[i]])
          ELSE None
    IN  IF left_shoulder = None \/ right_shoulder = None THEN None
        ELSE IF (left_ear = None \/ right_ear = None) /\ nose = None
          THEN None
        ELSE IF head_point = None THEN None
        ELSE Some(Arctan2Degrees(
                    Abs(The(head_point)[1] - The(shoulder_mid)[1]),
                    Abs(The(head_point)[2] - The(shoulder_mid)[2])))

\* The midpoints of the shoulders and of the hips, twice, or None when one
\* of the four keypoints is not in the pose.
TorsoMidpoints(pose_result) ==
    LET left_shoulder == GetKeypoint(pose_result, "left_shoulder")
        right_shoulder == GetKeypoint(pose_result, "right_shoulder")
        left_hip == GetKeypoint(pose_result, "left_hip")
        right_hip == GetKeypoint(pose_result, "right_hip")
    IN  IF left_shoulder = None \/ right_shoulder = None
           \/ left_hip = None \/ right_hip = None
          THEN None
          ELSE Some([shoulder_mid |->
                       The(GetMidpointTwice(left_shoulder, right_shoulder)),
                     hip_mid |-> The(GetMidpointTwice(left_hip, right_hip))])

\* AngleCalculator.calculate_body_lean.
CalculateBodyLean(pose_result) ==
    LET mids == TorsoMidpoints(pose_result) IN
    IF mids = None THEN None
    ELSE Some(Arctan2Degrees(
                The(mids).shoulder_mid[1] - The(mids).hip_mid[1],
                The(mids).shoulder_mid[2] - The(mids).hip_mid[2]))

\* AngleCalculator.calculate_shoulder_tilt and calculate_hip_tilt.
CalculateTilt(pose_result, left_name, right_name) ==
    LET left == GetKeypoint(pose_result, left_name)
        right == GetKeypoint(pose_result, right_name)
    IN  IF left # None /\ right # None
          THEN Some(Arctan2Degrees(The(right).y - The(left).y,
                                   The(right).x - The(left).x))
          ELSE None

\* AngleCalculator.calculate_spine_curve; dy < 0.01 is dy < 1 in
\* hundredths, and < 2 on the doubled midpoints.
CalculateSpineCurve(pose_result) ==
    LET mids == TorsoMidpoints(pose_result) IN
    IF mids = None THEN None
    ELSE LET dx == Abs(The(mids).shoulder_mid[1] - The(mids).hip_mid[1])
             dy == Abs(The(mids).shoulder_mid[2] - The(mids).hip_mid[2])
         IN  IF dy < 2 THEN None ELSE Some(Arctan2Degrees(dx, dy))

\* AngleCalculator.calculate_posture_metrics.
CalculatePostureMetrics(use_3d, pose_result, use_world) ==
    [head_tilt |-> CalculateHeadTilt(pose_result),
     neck_angle |-> CalculateNeckAngle(use_3d, pose_result, use_world),
     body_lean |-> CalculateBodyLean(pose_result),
     shoulder_tilt |-> CalculateTilt(pose_result, "left_shoulder",
                                     "right_shoulder"),
     hip_tilt |-> CalculateTilt(pose_result, "left_hip", "right_hip"),
     spine_curve |-> CalculateSpineCurve(pose_result)]

\* A body in front of the camera: name -> <<x, y, z, world_x, world_y,
\* world_z>>.
Body ==
    [nose             |-> <<50, 10, 0, 0, 70, 0>>,
     left_eye         |-> <<47, 8, 0, -3, 72, 0>>,
     right_eye        |-> <<53, 8, 0, 3, 72, 0>>,
     left_ear         |-> <<44, 10, 0, -6, 70, 0>>,
     right_ear        |-> <<56, 10, 0, 6, 70, 0>>,
     left_shoulder    |-> <<40, 30, 0, -20, 50, 0>>,
     right_shoulder   |-> <<60, 30, 0, 20, 50, 0>>,
     left_elbow       |-> <<30, 50, 0, -30, 30, 0>>,
     right_elbow      |-> <<70, 50, 0, 30, 30, 0>>,
     left_wrist       |-> <<25, 70, 0, -35, 10, 0>>,
     right_wrist      |-> <<75, 70, 0, 35, 10, 0>>,
     left_index       |-> <<24, 75, 0, -36, 5, 0>>,
     right_index      |-> <<76, 75, 0, 36, 5, 0>>,
     left_hip         |-> <<40, 60, 0, -20, 0, 0>>,
     right_hip        |-> <<60, 60, 0, 20, 0, 0>>,
     left_knee        |-> <<40, 80, 0, -20, -30, 0>>,
     right_knee       |-> <<60, 80, 0, 20, -30, 0>>,
     left_ankle       |-> <<40, 100, 0, -20, -60, 0>>,
     right_ankle      |-> <<60, 100, 0, 20, -60, 0>>,
     left_foot_index  |-> <<38, 104, 0, -22, -64, 5>>,
     right_foot_index |-> <<62, 104, 0, 22, -64, 5>>]

BodyOrder ==
    <<"nose", "left_eye", "right_eye", "left_ear", "right_ear",
      "left_shoulder", "right_shoulder", "left_elbow", "right_elbow",
      "left_wrist", "right_wrist", "left_index", "right_index",
      "left_hip", "right_hip", "left_knee", "right_knee",
      "left_ankle", "right_ankle", "left_foot_index", "right_foot_index">>

\* The keypoint the backend reports for a part of the body: seen ("ok"),
\* seen at the threshold ("edge"), hidden ("low"), or seen without world
\* coordinates ("noworld").
BodyKeypoint(name, kind) ==
    LET at == Body[name]
        visibility == CASE kind = "low" -> 3
                        [] kind = "edge" -> MinVisibility
                        [] OTHER -> 10
    IN  IF kind = "noworld"
          THEN Keypoint(name, at[1], at[2], at[3], visibility,
                        None, None, None)
          ELSE Keypoint(name, at[1], at[2], at[3], visibility,
                        Some(at[4]), Some(at[5]), Some(at[6]))

\* PoseResult(keypoints=[...]): the parts of kind "missing" are not in the
\* list; parts that `kinds` does not name are seen.
BodyPose(kinds) ==
    LET kind(name) == IF name \in DOMAIN kinds THEN kinds[name] ELSE "ok"
        reported(name) == kind(name) # "missing"
        names == SelectSeq(BodyOrder, reported)
    IN  [keypoints |-> [i \in 1..Len(names) |->
                          BodyKeypoint(names[i], kind(names[i]))]]

\* PoseResult(keypoints=[]).
EmptyPose == [keypoints |-> <<>>]

(***************************************************************************)
(* MotionAnalyzer: the bounded history.                                    *)
(***************************************************************************)
\* deque.append that refuses the new entry once the deque is full.
DequeAppendKeepsOldest(d, x, maxlen) ==
    IF Len(d) >= maxlen THEN d ELSE Append(d, x)

\* collections.deque(maxlen=maxlen).append(x): once full, the entry at the
\* left end is discarded.
DequeAppend(d, x, maxlen) ==
    IF maxlen = 0 THEN d
    ELSE IF Len(d) >= maxlen THEN Append(Tail(d), x)
    ELSE Append(d, x)

\* angle_history after the loop of update over the angles of one pose.
UpdateAngleHistory(hist, all_angles, maxlen) ==
    LET stored == {j \in Joints : all_angles[j] # None} IN
    [j \in (DOMAIN hist) \cup stored |->
        IF j \in stored
          THEN DequeAppend(IF j \in DOMAIN hist THEN hist[j] ELSE <<>>,
                           The(all_angles[j]), maxlen)
          ELSE hist[j]]

\* The empty dict.
EmptyDict == [j \in {} |-> <<>>]

(***************************************************************************)
(* DTWMatcher.                                                             *)
(***************************************************************************)
\* Row 0 filled with 0 in every column: a path may start at any column.
DtwRowZeroOpenStart(m) == [j \in 1..(m + 1) |-> Fin(0)]

\* Row 0 of dtw_matrix after np.full and dtw_matrix[0, 0] = 0; a row is the
\* sequence of its columns 0..m.
DtwRowZero(m) == [j \in 1..(m + 1) |-> IF j = 1 THEN Fin(0) ELSE Inf]

\* DtwRowFill taking the minimum over insertion and deletion only.
RECURSIVE DtwRowFillNoMatch(_, _, _, _)
DtwRowFillNoMatch(a, s2, prev, row) ==
    IF Len(row) = Len(s2) + 1 THEN row
    ELSE LET j == Len(row)
             cost == Abs(a - s2[j])
             cell == ExtAdd(cost, ExtMin(prev[j + 1], row[j]))
         IN  DtwRowFillNoMatch(a, s2, prev, Append(row, cell))

\* DtwRowFill whose cost is the signed difference, without abs().
RECURSIVE DtwRowFillSignedCost(_, _, _, _)
DtwRowFillSignedCost(a, s2, prev, row) ==
    IF Len(row) = Len(s2) + 1 THEN row
    ELSE LET j == Len(row)
             cost == a - s2[j]
             cell == ExtAdd(cost, ExtMin(prev[j + 1],
                                         ExtMin(row[j], prev[j])))
         IN  DtwRowFillSignedCost(a, s2, prev, Append(row, cell))

\* DtwRowFill whose minimum leaves out dtw_matrix[i, j-1], the step that
\* repeats an element of seq1.
RECURSIVE DtwRowFillNoInsertion(_, _, _, _)
DtwRowFillNoInsertion(a, s2, prev, row) ==
    IF Len(row) = Len(s2) + 1 THEN row
    ELSE LET j == Len(row)
             cost == Abs(a - s2[j])
             cell == ExtAdd(cost, ExtMin(prev[j + 1], prev[j]))
         IN  DtwRowFillNoInsertion(a, s2, prev, Append(row, cell))

\* The inner loop over j for one row i: `a` is seq1[i-1], `prev` is row
\* i-1, `row` holds the columns of row i filled so far (column 0 stays inf).
RECURSIVE DtwRowFill(_, _, _, _)
DtwRowFill(a, s2, prev, row) ==
    IF Len(row) = Len(s2) + 1 THEN row
    ELSE LET j == Len(row)
             cost == Abs(a - s2[j])
             cell == ExtAdd(cost, ExtMin(prev[j + 1],
                                         ExtMin(row[j], prev[j])))
         IN  DtwRowFill(a, s2, prev, Append(row, cell))

\* Row i of dtw_matrix once the loops have filled it.
RECURSIVE DtwMatrixRow(_, _, _)
DtwMatrixRow(s1, s2, i) ==
    IF i = 0 THEN DtwRowZero(Len(s2))
    ELSE DtwRowFill(s1[i], s2, DtwMatrixRow(s1, s2, i - 1), <<Inf>>)

\* dtw_distance without the guard on empty input.
DtwDistanceNoGuard(s1, s2) == DtwMatrixRow(s1, s2, Len(s1))[Len(s2) + 1]

\* DTWMatcher.dtw_distance.
DtwDistance(s1, s2) ==
    IF Len(s1) = 0 \/ Len(s2) = 0 THEN Inf
    ELSE DtwMatrixRow(s1, s2, Len(s1))[Len(s2) + 1]

\* normalize_score without the max(0, ...) that clamps the score.
NormalizeScoreNoClamp(distance, seq_length) ==
    IF seq_length.num = 0 THEN RatInt(0)
    ELSE IF distance.inf THEN RatInt(-1)
    ELSE Rat(100 * 180 * seq_length.num - 100 * distance.val * seq_length.den,
             180 * seq_length.num)

\* DTWMatcher.normalize_score; seq_length is a rational >= 0.
NormalizeScore(distance, seq_length) ==
    IF seq_length.num = 0 THEN RatInt(0)
    ELSE IF distance.inf THEN RatInt(0)
    ELSE LET score == Rat(100 * 180 * seq_length.num
                            - 100 * distance.val * seq_length.den,
                          180 * seq_length.num)
         IN  IF RatLeq(score, RatInt(0)) THEN RatInt(0) ELSE score

(***************************************************************************)
(* DanceSequence.                                                          *)
(***************************************************************************)
\* DanceSequence.__init__.
NewSequence(name) ==
    [name |-> name, poses |-> <<>>, angles_history |-> <<>>,
     timestamps |-> <<>>]

\* DanceSequence.add_frame.
AddFrame(sequence, pose, all_angles, timestamp) ==
    [sequence EXCEPT !.poses = Append(@, pose),
                     !.angles_history = Append(@, all_angles),
                     !.timestamps = Append(@, timestamp)]

\* DanceSequence.__len__.
SeqLen(sequence) == Len(sequence.poses)

\* Truth value of an Optional[DanceSequence]: None and a sequence of
\* length 0 are both false (the class defines __len__ and no __bool__).
Truthy(o) == o # None /\ SeqLen(The(o)) # 0

\* DanceSequence.get_angle_sequence: angles.get(joint_name, 0) or 0.
GetAngleSequence(sequence, joint_name) ==
    [i \in 1..Len(sequence.angles_history) |->
        LET frame == sequence.angles_history[i] IN
        IF joint_name \in DOMAIN frame /\ frame[joint_name] # None
          THEN The(frame[joint_name])
          ELSE 0]

\* DanceSequence.get_all_angle_sequences.
GetAllAngleSequences(sequence) ==
    IF sequence.angles_history = <<>> THEN EmptyDict
    ELSE LET all_joints ==
               UNION {DOMAIN sequence.angles_history[i] :
                        i \in 1..Len(sequence.angles_history)}
         IN  [joint \in all_joints |-> GetAngleSequence(sequence, joint)]

\* pickle.dump of a dict: its items, in insertion order.
PickleDump(keys, data) == [i \in 1..Len(keys) |-> <<keys[i], data[keys[i]]>>]

\* pickle.load: the dict rebuilt from the items.
PickleLoad(bytes) ==
    [k \in {bytes[i][1] : i \in 1..Len(bytes)} |->
        bytes[CHOOSE i \in 1..Len(bytes) : bytes[i][1] = k][2]]

\* DanceSequence.save that leaves the timestamps out of the file.
SaveWithoutTimestamps(sequence) ==
    PickleDump(<<"name", "angles_history", "timestamps">>,
               [name |-> sequence.name,
                angles_history |-> sequence.angles_history,
                timestamps |-> <<>>])

\* DanceSequence.save: the content of the file written.
Save(sequence) ==
    PickleDump(<<"name", "angles_history", "timestamps">>,
               [name |-> sequence.name,
                angles_history |-> sequence.angles_history,
                timestamps |-> sequence.timestamps])

\* DanceSequence.load from a file holding `bytes`.
Load(bytes) ==
    LET data == PickleLoad(bytes) IN
    [NewSequence(data["name"]) EXCEPT
        !.angles_history = data["angles_history"],
        !.timestamps = data["timestamps"]]

(***************************************************************************)
(* DanceCoach.                                                             *)
(***************************************************************************)
\* DanceCoach.key_joints.
KeyJoints ==
    <<"left_elbow", "right_elbow", "left_shoulder", "right_shoulder",
      "left_knee", "right_knee", "left_hip", "right_hip">>

\* compare_sequences: the least length of a sequence it compares.
MinCompareFrames == 10

RatAdd(x, y) == Rat(x.num * y.den + y.num * x.den, x.den * y.den)

\* np.mean of the scores of joint_scores over the first n key joints.
RECURSIVE SumScores(_, _)
SumScores(joint_scores, n) ==
    IF n = 0 THEN RatInt(0)
    ELSE LET rest == SumScores(joint_scores, n - 1) IN
         IF KeyJoints[n] \in DOMAIN joint_scores
           THEN RatAdd(rest, joint_scores[KeyJoints[n]].score)
           ELSE rest

MeanScore(joint_scores) ==
    LET total == SumScores(joint_scores, Len(KeyJoints))
        count == Cardinality(DOMAIN joint_scores)
    IN  Rat(total.num, total.den * count)

\* DanceCoach.compare_sequences.
CompareSequences(ref, cur) ==
    IF ~Truthy(ref) \/ ~Truthy(cur)
      THEN [error |-> "Missing reference or current sequence"]
    ELSE IF SeqLen(The(ref)) < MinCompareFrames
            \/ SeqLen(The(cur)) < MinCompareFrames
      THEN [error |-> "Sequences too short (need at least 10 frames)"]
    ELSE LET ref_angles == GetAllAngleSequences(The(ref))
             curr_angles == GetAllAngleSequences(The(cur))
             compared == {KeyJoints[i] : i \in 1..Len(KeyJoints)}
                           \cap DOMAIN ref_angles \cap DOMAIN curr_angles
             joint_scores ==
               [joint \in compared |->
                  LET ref_seq == ref_angles[joint]
                      curr_seq == curr_angles[joint]
                      distance == DtwDistance(ref_seq, curr_seq)
                      avg_len == Rat(Len(ref_seq) + Len(curr_seq), 2)
                  IN  [distance |-> distance,
                       score |-> NormalizeScore(distance, avg_len)]]
         IN  [joint_scores |-> joint_scores,
              overall_score |-> IF joint_scores # EmptyDict
                                  THEN MeanScore(joint_scores)
                                  ELSE RatInt(0)]

\* list[i] in Python: a negative index counts from the end, and an index
\* outside -len..len-1 raises IndexError.
ListIndex(list, i) ==
    IF 0 <= i /\ i < Len(list) THEN Returned(list[i + 1])
    ELSE IF -Len(list) <= i /\ i < 0 THEN Returned(list[Len(list) + i + 1])
    ELSE Raised("IndexError")

\* The status get_real_time_feedback gives a difference of angles.
FeedbackStatus(diff) ==
    IF diff < 15 THEN "good" ELSE IF diff < 30 THEN "ok" ELSE "bad"

\* The feedback dict built from the angles of the pose and of the
\* reference frame: an entry for each key joint present in both.
FeedbackOf(current_angles, ref_angles) ==
    LET present(angles_dict, joint) ==
            IF joint \in DOMAIN angles_dict
              THEN angles_dict[joint] # None ELSE FALSE
        joints == {joint \in {KeyJoints[i] : i \in 1..Len(KeyJoints)} :
                     present(current_angles, joint)
                       /\ present(ref_angles, joint)}
    IN  [joint \in joints |->
           LET curr_angle == The(current_angles[joint])
               ref_angle == The(ref_angles[joint])
               diff == Abs(curr_angle - ref_angle)
           IN  [current |-> curr_angle, reference |-> ref_angle,
                difference |-> diff, status |-> FeedbackStatus(diff)]]

\* DanceCoach.get_real_time_feedback: what it returns or raises.
GetRealTimeFeedback(ref, cur, id) ==
    IF ~Truthy(ref) THEN Returned([error |-> "No reference available"])
    ELSE LET current_angles == CalculateAllAngles(PoseResult(id))
             cur_len == IF Truthy(cur) THEN SeqLen(The(cur)) ELSE 0
             ref_idx == IF SeqLen(The(ref)) - 1 < cur_len
                          THEN SeqLen(The(ref)) - 1 ELSE cur_len
             ref_angles == ListIndex(The(ref).angles_history, ref_idx)
         IN  IF ref_angles.raised # None THEN ref_angles
             ELSE Returned(FeedbackOf(current_angles,
                                      The(ref_angles.value)))

\* The frame add_frame stores for a pose and a timestamp.
Frame(id, timestamp) ==
    [pose |-> id, angles |-> CalculateAllAngles(PoseResult(id)),
     timestamp |-> timestamp]

\* The frames a sequence holds, as add_frame stored them.
FramesOf(sequence) ==
    [i \in 1..Len(sequence.poses) |->
        [pose |-> sequence.poses[i], angles |-> sequence.angles_history[i],
         timestamp |-> sequence.timestamps[i]]]

\* Whether the model lets `id` be the next pose appended to the sequence.
MayAppend(o, id) ==
    /\ o # None =>
         /\ Len(The(o).angles_history) < MinCompareFrames + ExtraFrames
         /\ LET n == Len(The(o).angles_history) IN
            IF n < VaryFrames THEN TRUE
            ELSE The(o).angles_history[n]
                   = CalculateAllAngles(PoseResult(id))

(***************************************************************************)
(* The coach driven through its methods, in any order, as a client or a    *)
(* test drives it.  The reference file is one an earlier session left.     *)
(***************************************************************************)
\* The sequence a session records from n frames of pose `id`, stamped with
\* their index.
RECURSIVE RecordedSequence(_, _, _)
RecordedSequence(name, id, n) ==
    IF n = 0 THEN NewSequence(name)
    ELSE AddFrame(RecordedSequence(name, id, n - 1), id,
                  CalculateAllAngles(PoseResult(id)), n - 1)

\* dance_reference.pkl as earlier sessions may have left it.
EarlierFiles ==
    {None, Some(Save(RecordedSequence("Reference", "stand", 1))),
     Some(Save(RecordedSequence("Reference", "stand", MinCompareFrames)))}

InitCoach ==
    /\ reference = None
    /\ current = None
    /\ file \in EarlierFiles
    /\ op = "__init__"
    /\ results = None
    /\ recorded = None
    \* the counters, the matcher and the analyzer stay as constructed
    /\ test_sequence = [name |-> "Dance", poses |-> <<>>, angles_history |-> <<>>,
                   timestamps |-> <<>>]
    /\ loaded = None
    /\ recording_reference = FALSE /\ practicing = FALSE
    /\ start_time = None /\ pc = "idle"
    /\ call = None /\ ret = None
    /\ angles = <<>>
    /\ threshold_low = 60 /\ threshold_high = 90 /\ min_frames = 1
    /\ tracker = TrackerInit /\ batch_reps = 0 /\ dwell = DwellInit
    /\ seq1 = <<>> /\ seq2 = <<>> /\ dtw_out = None
    /\ buffer_size = 1 /\ pose_history = <<>>
    /\ angle_history = EmptyDict /\ fed = <<>>

\* stop_recording_reference that keeps an empty recording.
StopRecordingKeepsEmpty(ref) == ref

\* DanceCoach.stop_recording_reference: the reference it leaves.
StopRecording(ref) ==
    IF Truthy(ref) /\ SeqLen(The(ref)) > 0 THEN ref ELSE None

\* add_reference_frame / add_practice_frame that creates the sequence when
\* there is none.
AddCoachFrameCreatesSequence(o, id, timestamp) ==
    Some(AddFrame(IF o # None THEN The(o) ELSE NewSequence("Practice"), id,
                  CalculateAllAngles(PoseResult(id)), timestamp))

\* add_reference_frame / add_practice_frame on the sequence `o`.
AddCoachFrame(o, id, timestamp) ==
    IF o # None
      THEN Some(AddFrame(The(o), id, CalculateAllAngles(PoseResult(id)),
                         timestamp))
      ELSE o

\* The caller stamps a frame with its index in the sequence.
NextStamp(o) == IF o = None THEN 0 ELSE Len(The(o).timestamps)

StartRecordingReference ==
    /\ reference' = Some(NewSequence("Reference"))
    /\ recorded' = Some(<<>>)
    /\ op' = "start_recording_reference"
    /\ results' = None
    /\ UNCHANGED <<current, file, repVars, dtwVars, analyzerVars, sessionVars>>

AddReferenceFrame(id) ==
    /\ MayAppend(reference, id)
    /\ reference' = AddCoachFrame(reference, id, NextStamp(reference))
    /\ recorded' = IF reference # None /\ recorded # None
                     THEN Some(Append(The(recorded),
                                      Frame(id, NextStamp(reference))))
                     ELSE recorded
    /\ op' = "add_reference_frame"
    /\ results' = None
    /\ UNCHANGED <<current, file, repVars, dtwVars, analyzerVars, sessionVars>>

StopRecordingReference ==
    /\ reference' = StopRecording(reference)
    /\ op' = "stop_recording_reference"
    /\ results' = None
    /\ UNCHANGED <<current, file, recorded, repVars, dtwVars, analyzerVars, sessionVars>>

StartPractice ==
    /\ current' = Some(NewSequence("Practice"))
    /\ op' = "start_practice"
    /\ results' = None
    /\ UNCHANGED <<reference, file, recorded, repVars, dtwVars,
                   analyzerVars, sessionVars>>

AddPracticeFrame(id) ==
    /\ MayAppend(current, id)
    /\ current' = AddCoachFrame(current, id, NextStamp(current))
    /\ op' = "add_practice_frame"
    /\ results' = None
    /\ UNCHANGED <<reference, file, recorded, repVars, dtwVars,
                   analyzerVars, sessionVars>>

StopPractice ==
    /\ current' = None
    /\ op' = "stop_practice"
    /\ results' = None
    /\ UNCHANGED <<reference, file, recorded, repVars, dtwVars,
                   analyzerVars, sessionVars>>

CompareCall ==
    /\ results' = Some(CompareSequences(reference, current))
    /\ op' = "compare_sequences"
    /\ UNCHANGED <<reference, current, file, recorded, repVars, dtwVars,
                   analyzerVars, sessionVars>>

\* coach.get_real_time_feedback(pose): `results` keeps the pose passed and
\* what the call returned or raised.
FeedbackCall(id) ==
    /\ results' = Some([pose |-> id,
                        outcome |-> GetRealTimeFeedback(reference, current,
                                                        id)])
    /\ op' = "get_real_time_feedback"
    /\ UNCHANGED <<reference, current, file, recorded, repVars, dtwVars,
                   analyzerVars, sessionVars>>

\* coach.reference = DanceSequence.load(filepath), as the demo does it.
LoadReference ==
    /\ file # None
    /\ reference' = Some(Load(The(file)))
    /\ recorded' = None
    /\ op' = "load"
    /\ results' = None
    /\ UNCHANGED <<current, file, repVars, dtwVars, analyzerVars, sessionVars>>

NextCoach ==
    \/ StartRecordingReference
    \/ \E id \in PoseIds : AddReferenceFrame(id)
    \/ StopRecordingReference
    \/ StartPractice
    \/ \E id \in PoseIds : AddPracticeFrame(id)
    \/ StopPractice
    \/ CompareCall
    \/ \E id \in PoseIds : FeedbackCall(id)
    \/ LoadReference

SpecCoach == InitCoach /\ [][NextCoach]_vars

(***************************************************************************)
(* A sequence built frame by frame, saved, and loaded back, as             *)
(* test_dance_sequence does it.                                            *)
(***************************************************************************)
SequenceNames == {"Dance", "Test Dance"}

StoreStamps == {0, 1}

InitStore ==
    /\ test_sequence \in {NewSequence(name) : name \in SequenceNames}
    /\ file = None
    /\ loaded = None
    /\ recording_reference = FALSE /\ practicing = FALSE
    /\ start_time = None /\ pc = "idle"
    /\ call = None /\ ret = None
    /\ reference = None /\ current = None
    /\ op = "__init__" /\ results = None /\ recorded = None
    /\ angles = <<>>
    /\ threshold_low = 60 /\ threshold_high = 90 /\ min_frames = 1
    /\ tracker = TrackerInit /\ batch_reps = 0 /\ dwell = DwellInit
    /\ seq1 = <<>> /\ seq2 = <<>> /\ dtw_out = None
    /\ buffer_size = 1 /\ pose_history = <<>>
    /\ angle_history = EmptyDict /\ fed = <<>>

\* sequence.add_frame(pose, angles, timestamp), before the sequence is saved.
StoreAddFrame(id, timestamp) ==
    /\ file = None
    /\ Len(test_sequence.angles_history) < MaxStoreFrames
    /\ test_sequence' = AddFrame(test_sequence, id,
                                 CalculateAllAngles(PoseResult(id)),
                                 timestamp)
    /\ UNCHANGED <<loaded, file, mainVars, callVars, reference, current, op, results,
                   recorded, repVars, dtwVars, analyzerVars>>

\* sequence.save(filepath).
StoreSave ==
    /\ file = None
    /\ file' = Some(Save(test_sequence))
    /\ UNCHANGED <<test_sequence, loaded, mainVars, callVars, reference, current, op,
                   results, recorded, repVars, dtwVars, analyzerVars>>

\* loaded = DanceSequence.load(filepath).
StoreLoad ==
    /\ file # None
    /\ loaded = None
    /\ loaded' = Some(Load(The(file)))
    /\ UNCHANGED <<test_sequence, file, mainVars, callVars, reference, current, op,
                   results, recorded, repVars, dtwVars, analyzerVars>>

NextStore ==
    \/ \E id \in PoseIds, timestamp \in StoreStamps :
          StoreAddFrame(id, timestamp)
    \/ StoreSave
    \/ StoreLoad

SpecStore == InitStore /\ [][NextStore]_vars

(***************************************************************************)
(* The main loop of the dance coach demo: one step is one iteration, the   *)
(* camera frame first and the key after it.                                *)
(***************************************************************************)
\* time.time(): the whole session falls within one reading of the clock.
CurrentTime == 0

Keys == {"none", "q", "r", "p", "c", "s", "l"}

\* The frame branch of an iteration; fr is None when no valid pose is seen.
\* m.pc becomes "TypeError" when len() is taken of None.
HandleFrame(m, fr) ==
    IF fr = None THEN m
    ELSE IF m.recording_reference
      THEN LET st == IF m.start_time = None THEN Some(CurrentTime)
                     ELSE m.start_time
               ref == AddCoachFrame(m.reference, The(fr),
                                    CurrentTime - The(st))
           IN  [m EXCEPT !.start_time = st, !.reference = ref,
                         !.pc = IF ref = None THEN "TypeError" ELSE @]
    ELSE IF m.practicing
      THEN LET st == IF m.start_time = None THEN Some(CurrentTime)
                     ELSE m.start_time
               cur == AddCoachFrame(m.current, The(fr),
                                    CurrentTime - The(st))
               feedback == GetRealTimeFeedback(m.reference, cur, The(fr))
           IN  [m EXCEPT !.start_time = st, !.current = cur,
                         !.pc = IF feedback.raised # None
                                  THEN The(feedback.raised)
                                ELSE IF cur = None THEN "TypeError"
                                ELSE @]
    ELSE m

\* The key branch of an iteration.
HandleKey(m, key) ==
    CASE key = "q" -> [m EXCEPT !.pc = "returned"]
      [] key = "r" ->
           IF m.recording_reference
             THEN [m EXCEPT !.reference = StopRecording(m.reference),
                            !.recording_reference = FALSE,
                            !.start_time = None]
             ELSE [m EXCEPT !.reference = Some(NewSequence("Reference")),
                            !.recording_reference = TRUE,
                            !.start_time = None]
      [] key = "p" ->
           IF ~Truthy(m.reference) THEN m
           ELSE IF m.practicing
             THEN [m EXCEPT !.current = None,
                            !.practicing = FALSE,
                            !.start_time = None,
                            !.results =
                                Some(CompareSequences(m.reference, None))]
             ELSE [m EXCEPT !.current = Some(NewSequence("Practice")),
                            !.practicing = TRUE,
                            !.start_time = None]
      [] key = "c" -> [m EXCEPT !.reference = None]
      [] key = "s" ->
           IF Truthy(m.reference)
             THEN [m EXCEPT !.file = Some(Save(The(m.reference)))]
             ELSE m
      [] key = "l" ->
           IF m.file # None
             THEN [m EXCEPT !.reference = Some(Load(The(m.file)))]
             ELSE m
      [] OTHER -> m

InitMain ==
    /\ reference = None /\ current = None
    /\ recording_reference = FALSE /\ practicing = FALSE
    /\ start_time = None
    /\ pc = "loop"
    /\ file = None
    /\ results = None
    /\ op = "__init__" /\ recorded = None
    /\ test_sequence = NewSequence("Dance") /\ loaded = None
    /\ call = None /\ ret = None
    /\ angles = <<>>
    /\ threshold_low = 60 /\ threshold_high = 90 /\ min_frames = 1
    /\ tracker = TrackerInit /\ batch_reps = 0 /\ dwell = DwellInit
    /\ seq1 = <<>> /\ seq2 = <<>> /\ dtw_out = None
    /\ buffer_size = 1 /\ pose_history = <<>>
    /\ angle_history = EmptyDict /\ fed = <<>>

\* The valid poses the camera sees during a session: the dancer holds one.
MainPoses == {"stand"}

\* The frames the model hands to an iteration in the state it is in.
FrameInputs ==
    {None} \cup
    {Some(id) : id \in
       {i \in MainPoses :
          IF recording_reference THEN MayAppend(reference, i)
          ELSE IF practicing THEN MayAppend(current, i)
          ELSE TRUE}}

\* One iteration of the while loop that reads a frame.
Iterate(fr, key) ==
    /\ pc = "loop"
    /\ LET m0 == [reference |-> reference, current |-> current,
                  file |-> file, results |-> results,
                  recording_reference |-> recording_reference,
                  practicing |-> practicing, start_time |-> start_time,
                  pc |-> pc]
           m1 == HandleFrame(m0, fr)
           m2 == IF m1.pc = "loop" THEN HandleKey(m1, key) ELSE m1
       IN  /\ reference' = m2.reference
           /\ current' = m2.current
           /\ file' = m2.file
           /\ results' = m2.results
           /\ recording_reference' = m2.recording_reference
           /\ practicing' = m2.practicing
           /\ start_time' = m2.start_time
           /\ pc' = m2.pc
    /\ UNCHANGED <<op, recorded, storeVars, callVars, repVars, dtwVars,
                   analyzerVars>>

NoKey == \E fr \in FrameInputs : Iterate(fr, "none")
PressQ == \E fr \in FrameInputs : Iterate(fr, "q")
PressR == \E fr \in FrameInputs : Iterate(fr, "r")
PressP == \E fr \in FrameInputs : Iterate(fr, "p")
PressC == \E fr \in FrameInputs : Iterate(fr, "c")
PressS == \E fr \in FrameInputs : Iterate(fr, "s")
PressL == \E fr \in FrameInputs : Iterate(fr, "l")

\* cap.read() fails: the loop breaks.
CameraEnds ==
    /\ pc = "loop"
    /\ pc' = "returned"
    /\ UNCHANGED <<recording_reference, practicing, start_time, coachVars,
                   storeVars, callVars, repVars, dtwVars, analyzerVars>>

NextMain ==
    \/ NoKey
    \/ PressQ
    \/ PressR
    \/ PressP
    \/ PressC
    \/ PressS
    \/ PressL
    \/ CameraEnds

SpecMain == InitMain /\ [][NextMain]_vars

(***************************************************************************)
(* The matcher applied to two sequences, as test_dtw_algorithm does.       *)
(***************************************************************************)
RECURSIVE SeqsUpTo(_, _)
SeqsUpTo(S, n) ==
    IF n = 0 THEN {<<>>}
    ELSE LET shorter == SeqsUpTo(S, n - 1) IN
         shorter \cup {Append(q, x) : q \in shorter, x \in S}

InitDtw ==
    /\ seq1 \in SeqsUpTo(DtwAngles, MaxDtwLen)
    /\ seq2 \in SeqsUpTo(DtwAngles, MaxDtwLen)
    /\ dtw_out = None
    \* the repetition counters stay as constructed
    /\ angles = <<>>
    /\ threshold_low = 60 /\ threshold_high = 90 /\ min_frames = 1
    /\ tracker = TrackerInit /\ batch_reps = 0 /\ dwell = DwellInit
    /\ buffer_size = 1 /\ pose_history = <<>>
    /\ angle_history = EmptyDict /\ fed = <<>>
    /\ reference = None /\ current = None /\ file = None
    /\ op = "__init__" /\ results = None /\ recorded = None
    /\ test_sequence = [name |-> "Dance", poses |-> <<>>, angles_history |-> <<>>,
                   timestamps |-> <<>>]
    /\ loaded = None
    /\ recording_reference = FALSE /\ practicing = FALSE
    /\ start_time = None /\ pc = "idle"
    /\ call = None /\ ret = None

DtwCall ==
    /\ dtw_out = None
    /\ LET distance == DtwDistance(seq1, seq2) IN
       dtw_out' = Some([distance |-> distance,
                        score |-> NormalizeScore(distance,
                                                 RatInt(Len(seq1)))])
    /\ UNCHANGED <<seq1, seq2>>

(***************************************************************************)
(* The repetition counters fed one angle per frame.                        *)
(***************************************************************************)
InitRep ==
    /\ angles = <<>>
    /\ \E th \in RepThresholds :
          threshold_low = th[1] /\ threshold_high = th[2]
    /\ min_frames \in 0..MaxMinFrames
    /\ tracker = TrackerInit
    /\ batch_reps = 0
    /\ dwell = DwellInit
    \* the matcher is not called, the analyzer holds no pose
    /\ seq1 = <<>> /\ seq2 = <<>> /\ dtw_out = None
    /\ buffer_size = 1 /\ pose_history = <<>>
    /\ angle_history = EmptyDict /\ fed = <<>>
    /\ reference = None /\ current = None /\ file = None
    /\ op = "__init__" /\ results = None /\ recorded = None
    /\ test_sequence = [name |-> "Dance", poses |-> <<>>, angles_history |-> <<>>,
                   timestamps |-> <<>>]
    /\ loaded = None
    /\ recording_reference = FALSE /\ practicing = FALSE
    /\ start_time = None /\ pc = "idle"
    /\ call = None /\ ret = None

\* One frame: the angle joins the history, the tracker takes its step and
\* the batch count is taken over the history.
Feed(angle) ==
    /\ Len(angles) < MaxAngles
    /\ angles' = Append(angles, angle)
    /\ tracker' = TrackerUpdate(tracker, angle, threshold_low, threshold_high,
                                min_frames)
    /\ batch_reps' = DetectRepCount(angles', threshold_low, threshold_high,
                                    min_frames)
    /\ dwell' = DwellStep(dwell, tracker, angle, threshold_low,
                          threshold_high, min_frames)
    /\ UNCHANGED <<threshold_low, threshold_high, min_frames, dtwVars,
                   analyzerVars, coachVars, sessionVars>>

\* Key 'r' of the fitness trainer: tracker.reset() and clear_history().
ResetRep ==
    /\ angles # <<>>
    /\ angles' = <<>>
    /\ tracker' = TrackerReset(tracker)
    /\ batch_reps' = 0
    /\ dwell' = DwellInit
    /\ UNCHANGED <<threshold_low, threshold_high, min_frames, dtwVars,
                   analyzerVars, coachVars, sessionVars>>

NextRep ==
    \/ \E angle \in RepAngles : Feed(angle)
    \/ ResetRep

SpecRep == InitRep /\ [][NextRep]_vars

NextDtw == DtwCall /\ UNCHANGED <<repVars, analyzerVars, coachVars, sessionVars>>

SpecDtw == InitDtw /\ [][NextDtw]_vars

(***************************************************************************)
(* MotionAnalyzer: what it reports of a joint's history.                   *)
(***************************************************************************)
\* MotionAnalyzer(smoothing_window=...).
SmoothingWindow == 2

RatMul(x, y) == Rat(x.num * y.num, x.den * y.den)

RECURSIVE SumSeq(_)
SumSeq(q) == IF q = <<>> THEN 0 ELSE q[1] + SumSeq(Tail(q))

\* The exponential moving average over angles[1..n], alpha in (0, 1].
RECURSIVE Ema(_, _, _)
Ema(angles_list, n, alpha) ==
    IF n = 1 THEN RatInt(angles_list[1])
    ELSE RatAdd(RatMul(alpha, RatInt(angles_list[n])),
                RatMul(Rat(alpha.den - alpha.num, alpha.den),
                       Ema(angles_list, n - 1, alpha)))

\* get_smoothed_angle whose moving average runs over the whole history.
GetSmoothedAngleWholeHistory(history, smoothing_window, joint, method) ==
    IF joint \notin DOMAIN history THEN None
    ELSE IF Len(history[joint]) = 0 THEN None
    ELSE LET angles_list == history[joint]
             n == Len(angles_list)
         IN  IF method = "moving_average"
               THEN Some(Rat(SumSeq(angles_list), n))
             ELSE IF method = "exponential"
               THEN Some(Ema(angles_list, n, Rat(2, smoothing_window + 1)))
             ELSE Some(RatInt(angles_list[n]))

\* MotionAnalyzer.get_smoothed_angle(joint, method).
GetSmoothedAngle(history, smoothing_window, joint, method) ==
    IF joint \notin DOMAIN history THEN None
    ELSE IF Len(history[joint]) = 0 THEN None
    ELSE LET angles_list == history[joint]
             n == Len(angles_list)
         IN  IF method = "moving_average"
               THEN LET window == IF smoothing_window < n
                                    THEN smoothing_window ELSE n
                    IN  Some(Rat(SumSeq(SubSeq(angles_list, n - window + 1,
                                               n)), window))
             ELSE IF method = "exponential"
               THEN Some(Ema(angles_list, n, Rat(2, smoothing_window + 1)))
             ELSE Some(RatInt(angles_list[n]))

\* A rational a binary float holds exactly: its denominator is a power of 2.
RECURSIVE PowerOfTwo(_)
PowerOfTwo(n) ==
    IF n = 1 THEN TRUE
    ELSE IF n % 2 = 0 THEN PowerOfTwo(n \div 2) ELSE FALSE

Representable(x) == PowerOfTwo(x.den)

\* The float get_smoothed_angle returns: the value of exact arithmetic and
\* the rounding error accumulated on the way, in units in the last place.
\* Angles in a history are whole degrees here, so sums are exact, a
\* quotient is exact when it is representable, and the exponential average
\* is exact when alpha and every intermediate value are representable;
\* elsewhere the error is the `rounding` the arithmetic happens to give.
GetSmoothedAngleFloat(history, smoothing_window, joint, method, rounding) ==
    LET smoothed == GetSmoothedAngle(history, smoothing_window, joint, method)
    IN  IF smoothed = None THEN None
        ELSE LET n == Len(history[joint])
                 exactly ==
                   IF method = "exponential"
                     THEN n = 1 \/ Representable(Rat(2, smoothing_window + 1))
                     ELSE Representable(The(smoothed))
             IN  Some([exact |-> The(smoothed),
                       ulps |-> IF exactly THEN 0 ELSE rounding])

\* MotionAnalyzer.get_angle_statistics(joint); 'std' is kept as its square.
GetAngleStatistics(history, joint) ==
    IF joint \notin DOMAIN history THEN EmptyDict
    ELSE IF Len(history[joint]) = 0 THEN EmptyDict
    ELSE LET angles_list == history[joint]
             n == Len(angles_list)
             values == {angles_list[i] : i \in 1..n}
             total == SumSeq(angles_list)
             squares == SumSeq([i \in 1..n |-> angles_list[i] * angles_list[i]])
         IN  [min |-> RatInt(CHOOSE v \in values : \A w \in values : v <= w),
              max |-> RatInt(CHOOSE v \in values : \A w \in values : w <= v),
              mean |-> Rat(total, n),
              std |-> [square |-> Rat(n * squares - total * total, n * n)],
              current |-> RatInt(angles_list[n])]

\* deque.clear() and dict.clear().
DequeClear(d) == <<>>
DictClearKeepsEntries(d) == d
DictClear(d) == EmptyDict

\* The exercise the fitness trainer starts with: Exercise.SQUAT.
SquatConfig == [joint |-> "left_knee", threshold_low |-> 90,
                threshold_high |-> 160]

\* The dwell beyond which the model stops stepping the tracker.
MaxDwell == 2
MaxReps == 1

(***************************************************************************)
(* The motion analyzer fed one pose per frame.                             *)
(***************************************************************************)
InitAnalyzer ==
    /\ buffer_size \in 1..MaxBuffer
    /\ pose_history = <<>>
    /\ angle_history = EmptyDict
    /\ fed = <<>>
    \* the repetition counters and the matcher stay as constructed
    /\ angles = <<>>
    /\ threshold_low = SquatConfig.threshold_low
    /\ threshold_high = SquatConfig.threshold_high
    /\ min_frames = 1
    /\ tracker = TrackerInit /\ batch_reps = 0 /\ dwell = DwellInit
    /\ seq1 = <<>> /\ seq2 = <<>> /\ dtw_out = None
    /\ reference = None /\ current = None /\ file = None
    /\ op = "__init__" /\ results = None /\ recorded = None
    /\ test_sequence = [name |-> "Dance", poses |-> <<>>, angles_history |-> <<>>,
                   timestamps |-> <<>>]
    /\ loaded = None
    /\ recording_reference = FALSE /\ practicing = FALSE
    /\ start_time = None /\ pc = "idle"
    /\ call = None /\ ret = None

\* MotionAnalyzer.update(pose_result).
AnalyzerUpdate(id) ==
    /\ Len(fed) < MaxUpdates
    /\ pose_history' = DequeAppend(pose_history, id, buffer_size)
    /\ angle_history' = UpdateAngleHistory(angle_history,
                            CalculateAllAngles(PoseResult(id)), buffer_size)
    /\ fed' = Append(fed, id)
    /\ UNCHANGED <<buffer_size, repVars, dtwVars, coachVars, sessionVars>>

\* MotionAnalyzer.clear_history().
ClearHistory ==
    /\ fed # <<>>
    /\ pose_history' = DequeClear(pose_history)
    /\ angle_history' = DictClear(angle_history)
    /\ fed' = <<>>
    /\ UNCHANGED <<buffer_size, repVars, dtwVars, coachVars, sessionVars>>

\* ExerciseTracker.update(pose_result, angle_calculator, motion_analyzer):
\* the repetition state steps on the smoothed angle of the exercise's
\* joint, and stays when the analyzer has no angle for it.
TrackerUpdateCall ==
    /\ tracker.last_state_change <= MaxDwell
    /\ tracker.rep_count <= MaxReps
    /\ LET angle == GetSmoothedAngle(angle_history, SmoothingWindow,
                                     SquatConfig.joint, "moving_average")
       IN  tracker' = IF angle = None THEN tracker
                      ELSE TrackerUpdate(tracker, The(angle).num,
                                         threshold_low * The(angle).den,
                                         threshold_high * The(angle).den,
                                         min_frames)
    /\ UNCHANGED <<angles, threshold_low, threshold_high, min_frames,
                   batch_reps, dwell, analyzerVars, dtwVars, coachVars,
                   sessionVars>>

NextAnalyzer ==
    \/ \E id \in PoseIds : AnalyzerUpdate(id)
    \/ ClearHistory
    \/ TrackerUpdateCall

SpecAnalyzer == InitAnalyzer /\ [][NextAnalyzer]_vars

(***************************************************************************)
(* Functions called on their own, as a unit test or a client calls them:   *)
(* `call` holds the function and its arguments, `ret` what came back.      *)
(***************************************************************************)
\* Arguments of normalize_score: distances below, at and beyond 180 per
\* element, and lengths that are whole or the mean of two lengths.
ScoreDistances == {Inf} \cup {Fin(d) : d \in {0, 1, 45, 90, 179, 180, 181, 360, 1800}}
ScoreLengths == {Rat(k, 2) : k \in 0..(2 * MaxScoreLen)}

ScoreCalls ==
    {[fn |-> "normalize_score", distance |-> d, seq_length |-> n] :
        d \in ScoreDistances, n \in ScoreLengths}

NormalizeScoreCall ==
    /\ call # None /\ ret = None
    /\ The(call).fn = "normalize_score"
    /\ ret' = Some(Returned(NormalizeScore(The(call).distance,
                                           The(call).seq_length)))
    /\ UNCHANGED <<call, storeVars, mainVars, repVars, dtwVars, analyzerVars,
                   coachVars>>

\* Two pairs of constant sequences of one length, as test_dtw_algorithm
\* compares them: n times c1 against n times c2, and n times d1 against
\* n times d2.
PairValues == {0, 45, 180, 400}

ConstantSeq(n, c) == [i \in 1..n |-> c]

ConstantPairCalls ==
    {[fn |-> "dtw_distance, normalize_score", n |-> n,
      c1 |-> c1, c2 |-> c2, d1 |-> d1, d2 |-> d2] :
        n \in 1..MaxDtwLen, c1 \in PairValues, c2 \in PairValues,
        d1 \in PairValues, d2 \in PairValues}

\* distance = matcher.dtw_distance(seq1, seq2);
\* score = matcher.normalize_score(distance, len(seq1)).
DistanceAndScore(s1, s2) ==
    LET distance == DtwDistance(s1, s2) IN
    [distance |-> distance,
     score |-> NormalizeScore(distance, RatInt(Len(s1)))]

ConstantPairCall ==
    /\ call # None /\ ret = None
    /\ The(call).fn = "dtw_distance, normalize_score"
    /\ LET c == The(call) IN
       ret' = Some(Returned(
                [first |-> DistanceAndScore(ConstantSeq(c.n, c.c1),
                                            ConstantSeq(c.n, c.c2)),
                 second |-> DistanceAndScore(ConstantSeq(c.n, c.d1),
                                             ConstantSeq(c.n, c.d2))]))
    /\ UNCHANGED <<call, storeVars, mainVars, repVars, dtwVars, analyzerVars,
                   coachVars>>

\* Arguments of calculate_angle_3points: points of the plane and of space,
\* degenerate triples included, and the rounding of the float division.
AnglePoints ==
    {<<x, y>> : x \in 0..MaxCoord, y \in 0..MaxCoord}
        \cup {<<x, y, 0>> : x \in 0..MaxCoord, y \in {0, 1}}

Roundings == {0, 1}

Angle3PointsCalls ==
    {[fn |-> "calculate_angle_3points", a |-> t[1], b |-> t[2], c |-> t[3],
      rounding |-> r] :
        t \in {u \in AnglePoints \X AnglePoints \X AnglePoints :
                 Len(u[1]) = Len(u[2]) /\ Len(u[2]) = Len(u[3])},
        r \in Roundings}

Angle3PointsCall ==
    /\ call # None /\ ret = None
    /\ The(call).fn = "calculate_angle_3points"
    /\ ret' = Some(Returned(CalculateAngle3Points(The(call).a, The(call).b,
                                                  The(call).c,
                                                  The(call).rounding)))
    /\ UNCHANGED <<call, storeVars, mainVars, repVars, dtwVars, analyzerVars,
                   coachVars>>

\* Arguments of get_keypoint_coords: no keypoint, or a keypoint that is
\* hidden, just visible or visible, with each world coordinate there or not.
Visibilities == {3, 5, 10}

OptionalOf(v) == {None, Some(v)}

CoordKeypoints ==
    {None} \cup
    {Some(Keypoint("left_elbow", 40, 50, 7, v, wx, wy, wz)) :
        v \in Visibilities, wx \in OptionalOf(-30), wy \in OptionalOf(30),
        wz \in OptionalOf(2)}

KeypointCoordsCalls ==
    {[fn |-> "get_keypoint_coords", use_3d |-> u3, keypoint |-> kp,
      use_world |-> uw] :
        u3 \in BOOLEAN, kp \in CoordKeypoints, uw \in BOOLEAN}

KeypointCoordsCall ==
    /\ call # None /\ ret = None
    /\ The(call).fn = "get_keypoint_coords"
    /\ ret' = Some(Returned(GetKeypointCoords(The(call).use_3d,
                                              The(call).keypoint,
                                              The(call).use_world)))
    /\ UNCHANGED <<call, storeVars, mainVars, repVars, dtwVars, analyzerVars,
                   coachVars>>

\* Arguments of calculate_joint_angle: a joint of the table with each of
\* its three keypoints in every kind, or a name the table does not hold.
KeypointKinds == {"ok", "edge", "low", "noworld", "missing"}

UnknownJoints == {"invalid_joint", "nose"}

JointPoses(joint) ==
    IF joint \in Joints
      THEN LET t == JOINT_DEFINITIONS[joint] IN
           {BodyPose([n \in {t[1], t[2], t[3]} |->
                        IF n = t[1] THEN k[1]
                        ELSE IF n = t[2] THEN k[2] ELSE k[3]]) :
               k \in KeypointKinds \X KeypointKinds \X KeypointKinds}
      ELSE {EmptyPose, BodyPose(<<>>),
            BodyPose([n \in {"left_shoulder"} |-> "low"])}

JointAngleCalls ==
    UNION {{[fn |-> "calculate_joint_angle", use_3d |-> u3,
             pose_result |-> p, joint |-> j, use_world |-> uw] :
               u3 \in BOOLEAN, p \in JointPoses(j), uw \in BOOLEAN} :
           j \in Joints \cup UnknownJoints}

JointAngleCall ==
    /\ call # None /\ ret = None
    /\ The(call).fn = "calculate_joint_angle"
    /\ ret' = Some(JointAngle(The(call).use_3d, The(call).pose_result,
                              The(call).joint, The(call).use_world))
    /\ UNCHANGED <<call, storeVars, mainVars, repVars, dtwVars, analyzerVars,
                   coachVars>>

\* Arguments of calculate_all_angles: the pose without keypoints, and the
\* body with some of its parts hidden or missing.
PartKinds == {"ok", "low", "missing"}

AllAnglesPoses ==
    {EmptyPose} \cup
    {BodyPose([n \in {"left_shoulder", "left_wrist", "right_knee"} |->
                 IF n = "left_shoulder" THEN k[1]
                 ELSE IF n = "left_wrist" THEN k[2] ELSE k[3]]) :
        k \in PartKinds \X PartKinds \X PartKinds}

AllAnglesCalls ==
    {[fn |-> "calculate_all_angles", use_3d |-> u3, pose_result |-> p,
      use_world |-> uw] :
        u3 \in BOOLEAN, p \in AllAnglesPoses, uw \in BOOLEAN}

AllAnglesCall ==
    /\ call # None /\ ret = None
    /\ The(call).fn = "calculate_all_angles"
    /\ ret' = Some(Returned(AllAngles(The(call).use_3d,
                                      The(call).pose_result,
                                      The(call).use_world)))
    /\ UNCHANGED <<call, storeVars, mainVars, repVars, dtwVars, analyzerVars,
                   coachVars>>

PosturePoses ==
    {EmptyPose} \cup
    {BodyPose([n \in {"left_ear", "nose", "left_shoulder", "left_hip"} |->
                 CASE n = "left_ear" -> k[1]
                   [] n = "nose" -> k[2]
                   [] n = "left_shoulder" -> k[3]
                   [] OTHER -> k[4]]) :
        k \in PartKinds \X PartKinds \X PartKinds \X PartKinds}

PostureCalls ==
    {[fn |-> "calculate_posture_metrics", use_3d |-> u3, pose_result |-> p,
      use_world |-> uw] :
        u3 \in BOOLEAN, p \in PosturePoses, uw \in BOOLEAN}

PostureMetricsCall ==
    /\ call # None /\ ret = None
    /\ The(call).fn = "calculate_posture_metrics"
    /\ ret' = Some(Returned(CalculatePostureMetrics(The(call).use_3d,
                                                    The(call).pose_result,
                                                    The(call).use_world)))
    /\ UNCHANGED <<call, storeVars, mainVars, repVars, dtwVars, analyzerVars,
                   coachVars>>

\* The offsets from the left ear to the right ear, in the directions where
\* Arctan2Degrees is exact (multiples of 45 degrees).
EarOffsets ==
    {d \in (-MaxCoord..MaxCoord) \X (-MaxCoord..MaxCoord) :
        d[1] = 0 \/ d[2] = 0 \/ Abs(d[1]) = Abs(d[2])}

\* A pose with both ears, the right ear at the offset from the left one.
EarsPose(d) ==
    [keypoints |->
       <<Keypoint("left_ear", 50, 10, 0, 10, None, None, None),
         Keypoint("right_ear", 50 + d[1], 10 + d[2], 0, 10,
                  None, None, None)>>]

HeadTiltCalls ==
    {[fn |-> "calculate_head_tilt", pose_result |-> EarsPose(d),
      offset |-> d] : d \in EarOffsets}

HeadTiltCall ==
    /\ call # None /\ ret = None
    /\ The(call).fn = "calculate_head_tilt"
    /\ ret' = Some(Returned(CalculateHeadTilt(The(call).pose_result)))
    /\ UNCHANGED <<call, storeVars, mainVars, repVars, dtwVars, analyzerVars,
                   coachVars>>

\* Histories of one joint, and the analyzers that hold them.
SmoothHistories == SeqsUpTo({45, 60}, MaxBuffer)
SmoothWindows == {1, 2, 3, 5}
RoundingErrors == {-1, 0, 1}

SmoothCalls ==
    {[fn |-> "get_smoothed_angle", history |-> h, smoothing_window |-> w,
      joint |-> "left_knee", method |-> m, rounding |-> e] :
        h \in {EmptyDict} \cup {[j \in {"left_knee"} |-> q] :
                                  q \in SmoothHistories}
                         \cup {[j \in {"left_elbow"} |-> <<45>>]},
        w \in SmoothWindows,
        m \in {"moving_average", "exponential"},
        e \in RoundingErrors}

SmoothedAngleCall ==
    /\ call # None /\ ret = None
    /\ The(call).fn = "get_smoothed_angle"
    /\ ret' = Some(Returned(GetSmoothedAngleFloat(
                               The(call).history, The(call).smoothing_window,
                               The(call).joint, The(call).method,
                               The(call).rounding)))
    /\ UNCHANGED <<call, storeVars, mainVars, repVars, dtwVars, analyzerVars,
                   coachVars>>

\* @calc-actions

Calls ==
    ScoreCalls \cup ConstantPairCalls \cup Angle3PointsCalls
        \cup KeypointCoordsCalls \cup JointAngleCalls \cup AllAnglesCalls
        \cup PostureCalls \cup HeadTiltCalls \cup SmoothCalls

InitCalc ==
    /\ call \in {Some(c) : c \in Calls}
    /\ ret = None
    /\ angles = <<>>
    /\ threshold_low = 60 /\ threshold_high = 90 /\ min_frames = 1
    /\ tracker = TrackerInit /\ batch_reps = 0 /\ dwell = DwellInit
    /\ seq1 = <<>> /\ seq2 = <<>> /\ dtw_out = None
    /\ buffer_size = 1 /\ pose_history = <<>>
    /\ angle_history = EmptyDict /\ fed = <<>>
    /\ reference = None /\ current = None /\ file = None
    /\ op = "__init__" /\ results = None /\ recorded = None
    /\ test_sequence = NewSequence("Dance") /\ loaded = None
    /\ recording_reference = FALSE /\ practicing = FALSE
    /\ start_time = None /\ pc = "idle"

NextCalc ==
    \/ NormalizeScoreCall
    \/ ConstantPairCall
    \/ Angle3PointsCall
    \/ KeypointCoordsCall
    \/ JointAngleCall
    \/ AllAnglesCall
    \/ PostureMetricsCall
    \/ HeadTiltCall
    \/ SmoothedAngleCall

SpecCalc == InitCalc /\ [][NextCalc]_vars

(***************************************************************************)
(* Claims about the repetition counters.                                   *)
(***************************************************************************)
C1Stream == <<100, 80, 50, 80, 100, 80, 50, 80, 100>>

C1Replayed ==
    /\ angles = C1Stream
    /\ threshold_low = 60 /\ threshold_high = 90 /\ min_frames = 1

\* C1 (as stated): replaying [100,80,50,80,100,80,50,80,100] through
\* detect_rep_count with low=60, high=90, min_frames=1 yields 2 repetitions.
C1_ReplayYieldsTwo == C1Replayed => batch_reps = 2

\* C1 (amended): the same replay yields exactly 1 repetition: the stream
\* holds one low -> high -> low cycle, and the count is taken on the return
\* to low.
C1_ReplayYieldsOne == C1Replayed => batch_reps = 1

C1_Witness == C1Replayed /\ batch_reps = 1

\* C2: the batch count over the whole history equals the count the freshly
\* reset tracker reached over the same angles, for every stream and every
\* configuration.
C2_BatchEqualsIncremental == batch_reps = tracker.rep_count

\* The batch loop left "low" for the high threshold (or "high" for the low
\* one) after at least mf frames in that state, somewhere in the history.
BatchDwelledLow(as, lo, hi, mf) ==
    \E i \in 1..Len(as) :
        LET s == RepLoop(as, i - 1, lo, hi, mf) IN
        s.state = "low" /\ as[i] >= hi /\ s.frames_in_state >= mf

BatchDwelledHigh(as, lo, hi, mf) ==
    \E i \in 1..Len(as) :
        LET s == RepLoop(as, i - 1, lo, hi, mf) IN
        s.state = "high" /\ as[i] <= lo /\ s.frames_in_state >= mf

\* The stream went from the low threshold to the high one and back.
Crosses(as, lo, hi) ==
    \E i, j, k \in 1..Len(as) :
        i < j /\ j < k /\ as[i] <= lo /\ as[j] >= hi /\ as[k] <= lo

\* C3: debounce. A stream that never stays min_frames frames in Low before
\* the high threshold, or never stays min_frames frames in High before the
\* low threshold, counts 0 repetitions, in the batch replay and in the
\* tracker.
C3_Debounce ==
    /\ (~BatchDwelledLow(angles, threshold_low, threshold_high, min_frames)
        \/ ~BatchDwelledHigh(angles, threshold_low, threshold_high, min_frames))
          => batch_reps = 0
    /\ (~dwell.low \/ ~dwell.high) => tracker.rep_count = 0

C3_Witness ==
    /\ Crosses(angles, threshold_low, threshold_high)
    /\ BatchDwelledLow(angles, threshold_low, threshold_high, min_frames)
    /\ ~BatchDwelledHigh(angles, threshold_low, threshold_high, min_frames)
    /\ dwell.low /\ ~dwell.high
    /\ batch_reps = 0 /\ tracker.rep_count = 0

(***************************************************************************)
(* Claims about the DTW matcher.                                           *)
(***************************************************************************)
\* C9: for every non-empty sequence seq, dtw_distance(seq, seq) is 0 and
\* normalize_score(0, len(seq)) is 100.
C9_SelfDistanceZero ==
    (dtw_out # None /\ seq1 = seq2 /\ seq1 # <<>>)
        => /\ The(dtw_out).distance = Fin(0)
           /\ The(dtw_out).score = RatInt(100)

C9_Witness ==
    /\ dtw_out # None /\ seq1 = seq2 /\ Len(seq1) = MaxDtwLen
    /\ seq1[1] # seq1[2]
    /\ The(dtw_out).distance = Fin(0)
    /\ The(dtw_out).score = RatInt(100)

\* C10: dtw_distance returns +infinity whenever either sequence is empty
\* (both empty included), and a finite value >= 0 whenever both are
\* non-empty.
C10_InfiniteIffEmpty ==
    dtw_out # None
        => LET d == The(dtw_out).distance IN
           /\ d.inf <=> (seq1 = <<>> \/ seq2 = <<>>)
           /\ ~d.inf => d.val >= 0

C10_Witness ==
    /\ dtw_out # None
    /\ seq1 = <<>> /\ seq2 = <<>>
    /\ The(dtw_out).distance = Inf

(***************************************************************************)
(* Claims about the motion analyzer.                                       *)
(***************************************************************************)
\* The last n entries of q (all of q when it holds fewer).
LastN(q, n) ==
    IF Len(q) <= n THEN q ELSE SubSeq(q, Len(q) - n + 1, Len(q))

\* The angles of `joint` that update appended, in arrival order: those of
\* the poses fed in which the joint's angle is present.
RECURSIVE AppendedAngles(_, _)
AppendedAngles(poses, joint) ==
    IF poses = <<>> THEN <<>>
    ELSE LET n == Len(poses)
             a == CalculateJointAngle(PoseResult(poses[n]), joint)
             before == AppendedAngles(SubSeq(poses, 1, n - 1), joint)
         IN  IF a = None THEN before ELSE Append(before, The(a))

\* C8: the pose history and every per-joint angle history hold at most
\* buffer_size entries, and each equals the most recent (up to buffer_size)
\* values appended to it, in arrival order.
C8_BoundedFifo ==
    /\ Len(pose_history) <= buffer_size
    /\ pose_history = LastN(fed, buffer_size)
    /\ \A j \in DOMAIN angle_history :
          /\ Len(angle_history[j]) <= buffer_size
          /\ angle_history[j] = LastN(AppendedAngles(fed, j), buffer_size)
    /\ \A j \in Joints \ DOMAIN angle_history : AppendedAngles(fed, j) = <<>>

\* More poses were fed than the buffer holds, the oldest differing from
\* its successor, and a joint's history overflowed too.
C8_Witness ==
    /\ Len(fed) > buffer_size /\ buffer_size >= 2
    /\ fed[1] # fed[2]
    /\ Len(pose_history) = buffer_size
    /\ "left_shoulder" \in DOMAIN angle_history
    /\ Len(AppendedAngles(fed, "left_shoulder")) > buffer_size
    /\ angle_history["left_shoulder"][1] # angle_history["left_shoulder"][2]
    /\ Len(AppendedAngles(fed, "left_elbow")) < Len(fed)

(***************************************************************************)
(* Claims about the coach.                                                 *)
(***************************************************************************)
\* The number of frames a sequence holds: its (angles, timestamp) entries.
NumFrames(o) == Len(The(o).angles_history)

\* C5: compare_sequences returns a result carrying 'error' and no scores
\* whenever the reference or the current sequence is absent or holds fewer
\* than 10 frames, and in every other state returns joint_scores and
\* overall_score and no 'error'.
C5_ErrorIffAbsentOrShort ==
    op = "compare_sequences" =>
        LET unfit == \/ reference = None
                     \/ current = None
                     \/ NumFrames(reference) < MinCompareFrames
                     \/ NumFrames(current) < MinCompareFrames
        IN  IF unfit
              THEN DOMAIN The(results) = {"error"}
              ELSE DOMAIN The(results) = {"joint_scores", "overall_score"}

\* C7: after stop_recording_reference, coach.reference is None if no frame
\* was appended since start_recording_reference, and otherwise is the
\* recorded sequence holding every appended frame, in order.
C7_EmptyReferenceDiscarded ==
    (op = "stop_recording_reference" /\ recorded # None) =>
        IF The(recorded) = <<>>
          THEN reference = None
          ELSE /\ reference # None
               /\ The(reference).name = "Reference"
               /\ NumFrames(reference) = Len(The(recorded))
               /\ FramesOf(The(reference)) = The(recorded)

\* A recording started and stopped with no frame in between.
C7_Witness ==
    /\ op = "stop_recording_reference"
    /\ recorded = Some(<<>>)
    /\ reference = None

\* C6: save followed by load yields a sequence whose name, angles_history
\* and timestamps are identical, in order, to those of the saved sequence.
C6_SaveLoadRoundTrip ==
    loaded # None =>
        /\ The(loaded).name = test_sequence.name
        /\ The(loaded).angles_history = test_sequence.angles_history
        /\ The(loaded).timestamps = test_sequence.timestamps

\* A sequence of poses that differ, at timestamps that differ, loaded back
\* without its poses.
C6_Witness ==
    /\ loaded # None
    /\ Len(test_sequence.angles_history) = MaxStoreFrames
    /\ test_sequence.angles_history[1] # test_sequence.angles_history[2]
    /\ test_sequence.timestamps[1] # test_sequence.timestamps[2]
    /\ The(loaded).poses # test_sequence.poses

\* C4: in the dance-coach session, key 'p' pressed while practicing, when
\* the reference holds at least 10 frames and at least 10 practice frames
\* were recorded, ends the practice with a comparison result that carries
\* joint scores and an overall score, not an error.
C4_PracticeStopScores ==
    [][(/\ pc = "loop"
        /\ practicing /\ ~practicing'
        /\ reference # None /\ current # None
        /\ NumFrames(reference) >= MinCompareFrames
        /\ NumFrames(current) >= MinCompareFrames)
       => /\ results' # None
          /\ DOMAIN The(results') = {"joint_scores", "overall_score"}]_vars

(***************************************************************************)
(* Claims about functions called on their own.                             *)
(***************************************************************************)
\* C11: normalize_score(distance, seq_length) returns 0 when seq_length is
\* 0 and otherwise max(0, 100 - (distance/seq_length)/180*100); for every
\* distance >= 0, +infinity included, and every seq_length >= 0 the result
\* lies in [0, 100].
C11_ScoreInRange ==
    (call # None /\ ret # None /\ The(call).fn = "normalize_score") =>
        LET d == The(call).distance
            n == The(call).seq_length
            s == The(The(ret).value)
            normalized == Rat(d.val * n.den, n.num)
            percent == Rat(normalized.num * 100, normalized.den * 180)
            linear == Rat(100 * percent.den - percent.num, percent.den)
        IN  /\ The(ret).raised = None
            /\ n.num = 0 => s = RatInt(0)
            /\ (n.num # 0 /\ d.inf) => s = RatInt(0)
            /\ (n.num # 0 /\ ~d.inf) =>
                  s = IF RatLeq(linear, RatInt(0)) THEN RatInt(0) ELSE linear
            /\ RatLeq(RatInt(0), s) /\ RatLeq(s, RatInt(100))

\* An infinite distance over a positive length scores 0.
C11_Witness ==
    /\ call # None /\ ret # None /\ The(call).fn = "normalize_score"
    /\ The(call).distance = Inf
    /\ The(call).seq_length = Rat(3, 2)
    /\ The(The(ret).value) = RatInt(0)

\* C12: for two constant sequences of the same length n >= 1 with values c1
\* and c2, a larger |c1 - c2| gives a strictly larger dtw_distance and a
\* strictly smaller normalize_score(distance, n), until the score reaches
\* its floor of 0.
C12_Monotone ==
    (call # None /\ ret # None
       /\ The(call).fn = "dtw_distance, normalize_score"
       /\ Abs(The(call).c1 - The(call).c2) < Abs(The(call).d1 - The(call).d2))
    => LET near == The(The(ret).value).first
           far == The(The(ret).value).second
       IN  /\ ~near.distance.inf /\ ~far.distance.inf
           /\ near.distance.val < far.distance.val
           /\ IF near.score = RatInt(0)
                 THEN far.score = RatInt(0)
                 ELSE /\ RatLeq(far.score, near.score)
                      /\ far.score # near.score

\* Three elements 45 apart against three elements 180 apart: the score
\* falls from 75 to its floor.
C12_Witness ==
    /\ call # None /\ ret # None
    /\ The(call).fn = "dtw_distance, normalize_score"
    /\ The(call).n = MaxDtwLen
    /\ Abs(The(call).c1 - The(call).c2) = 45
    /\ Abs(The(call).d1 - The(call).d2) = 180
    /\ The(The(ret).value).first.score = RatInt(75)
    /\ The(The(ret).value).second.score = RatInt(0)

\* C19: for every three points a, b, c, those with a = b or c = b included,
\* calculate_angle_3points returns a defined angle in degrees with
\* 0 <= angle <= 180, and never raises or returns NaN.
C19_AngleDefinedInRange ==
    (call # None /\ ret # None
       /\ The(call).fn = "calculate_angle_3points")
    => /\ The(ret).raised = None
       /\ ~The(The(ret).value).nan
       /\ The(The(ret).value).deg \in 0..180

\* A triple whose first point is the vertex, with the division rounded up.
C19_Witness ==
    /\ call # None /\ ret # None
    /\ The(call).fn = "calculate_angle_3points"
    /\ The(call).a = The(call).b
    /\ The(call).c # The(call).b
    /\ The(call).rounding = 1
    /\ The(The(ret).value) = [nan |-> FALSE, deg |-> 90]

\* The call of get_keypoint_coords on a usable keypoint has returned.
CoordsOfUsable ==
    /\ call # None /\ ret # None
    /\ The(call).fn = "get_keypoint_coords"
    /\ The(call).keypoint # None
    /\ The(The(call).keypoint).visibility >= MinVisibility

HasWorld(kp) == kp.world_x # None /\ kp.world_y # None /\ kp.world_z # None

\* What get_keypoint_coords falls back to: 2D image coordinates when 3D is
\* not preferred, image coordinates plus depth when it is.
ImageCoords(use_3d, kp) ==
    IF use_3d THEN Some(<<kp.x, kp.y, kp.z>>) ELSE Some(<<kp.x, kp.y>>)

\* C16 (as stated): for a usable keypoint, world coordinates are returned
\* whenever they are requested and the keypoint has all three of them, for
\* either setting of the 3D preference; otherwise the image coordinates.
C16_WorldWheneverRequested ==
    CoordsOfUsable =>
        LET kp == The(The(call).keypoint) IN
        The(The(ret).value) =
            IF The(call).use_world /\ HasWorld(kp)
              THEN Some(<<The(kp.world_x), The(kp.world_y), The(kp.world_z)>>)
              ELSE ImageCoords(The(call).use_3d, kp)

\* C16 (amended): for a usable keypoint, world coordinates are returned
\* when they are requested, the keypoint has all three of them and 3D is
\* preferred; otherwise 2D image coordinates are returned when 3D is not
\* preferred and image coordinates plus depth when it is.
C16_WorldOnlyWhen3D ==
    CoordsOfUsable =>
        LET kp == The(The(call).keypoint) IN
        The(The(ret).value) =
            IF The(call).use_3d /\ The(call).use_world /\ HasWorld(kp)
              THEN Some(<<The(kp.world_x), The(kp.world_y), The(kp.world_z)>>)
              ELSE ImageCoords(The(call).use_3d, kp)

\* World coordinates requested of a keypoint that has them, by a
\* calculator that prefers 2D: the image coordinates come back.
C16_Witness ==
    /\ CoordsOfUsable
    /\ ~The(call).use_3d /\ The(call).use_world
    /\ HasWorld(The(The(call).keypoint))
    /\ The(The(ret).value) = Some(<<40, 50>>)

\* The pose holds a keypoint of that name with visibility >= 0.5.
Usable(pose_result, name) ==
    \E i \in 1..Len(pose_result.keypoints) :
        /\ pose_result.keypoints[i].name = name
        /\ pose_result.keypoints[i].visibility >= MinVisibility

\* One of the three topology keypoints of the joint is missing or hidden.
LacksKeypoint(pose_result, joint) ==
    \E i \in 1..3 : ~Usable(pose_result, JOINT_DEFINITIONS[joint][i])

\* C13: calculate_joint_angle raises ValueError if and only if the joint
\* name is not in the joint topology table; for a known joint it returns
\* None exactly when at least one of the three topology keypoints is
\* missing from the pose or has visibility < 0.5.
C13_ValueErrorIffUnknownJoint ==
    (call # None /\ ret # None /\ The(call).fn = "calculate_joint_angle")
    => LET c == The(call) IN
       /\ The(ret).raised = Some("ValueError") <=> c.joint \notin Joints
       /\ c.joint \in Joints =>
             /\ The(ret).raised = None
             /\ The(The(ret).value) = None
                   <=> LacksKeypoint(c.pose_result, c.joint)

\* The left elbow asked of a body whose left wrist is hidden: None.
C13_Witness ==
    /\ call # None /\ ret # None /\ The(call).fn = "calculate_joint_angle"
    /\ The(call).joint = "left_elbow"
    /\ Usable(The(call).pose_result, "left_shoulder")
    /\ Usable(The(call).pose_result, "left_elbow")
    /\ \E i \in 1..Len(The(call).pose_result.keypoints) :
          /\ The(call).pose_result.keypoints[i].name = "left_wrist"
          /\ The(call).pose_result.keypoints[i].visibility < MinVisibility
    /\ The(ret).raised = None
    /\ The(The(ret).value) = None

\* C14: calculate_all_angles returns, for every pose, the pose without
\* keypoints included, a mapping with exactly one entry per joint of the
\* topology table; an entry is absent exactly when its own joint lacks a
\* keypoint, whatever happens to the other joints.
C14_EveryJointHasEntry ==
    (call # None /\ ret # None /\ The(call).fn = "calculate_all_angles")
    => LET all_angles == The(The(ret).value) IN
       /\ The(ret).raised = None
       /\ DOMAIN all_angles = Joints
       /\ \A j \in Joints :
             all_angles[j] = None <=> LacksKeypoint(The(call).pose_result, j)

\* The left shoulder missing: the joints built on it are absent, the first
\* of the dict among them, and the joints after them are present.
C14_Witness ==
    /\ call # None /\ ret # None /\ The(call).fn = "calculate_all_angles"
    /\ ~Usable(The(call).pose_result, "left_shoulder")
    /\ The(The(ret).value)["left_elbow"] = None
    /\ The(The(ret).value)["left_hip"] = None
    /\ The(The(ret).value)["right_elbow"] # None
    /\ The(The(ret).value)["right_ankle"] # None

AllUsable(pose_result, names) ==
    \A name \in names : Usable(pose_result, name)

Shoulders == {"left_shoulder", "right_shoulder"}
Hips == {"left_hip", "right_hip"}
Ears == {"left_ear", "right_ear"}
Eyes == {"left_eye", "right_eye"}

\* C15: calculate_posture_metrics returns without raising, and each of its
\* metrics is None whenever a keypoint the metric requires is missing from
\* the pose or has visibility below 0.5: the shoulders for shoulder_tilt,
\* the hips for hip_tilt, shoulders and hips for body_lean and spine_curve,
\* the ears or else the eyes for head_tilt, the shoulders and the ears or
\* else the nose for neck_angle.
C15_MetricAbsentWithoutVisibleKeypoints ==
    (call # None /\ ret # None
        /\ The(call).fn = "calculate_posture_metrics") =>
      LET pose_result == The(call).pose_result
          metrics == The(The(ret).value)
      IN  /\ The(ret).raised = None
          /\ ~AllUsable(pose_result, Shoulders)
                => /\ metrics.shoulder_tilt = None
                   /\ metrics.neck_angle = None
          /\ ~AllUsable(pose_result, Hips) => metrics.hip_tilt = None
          /\ ~AllUsable(pose_result, Shoulders \cup Hips)
                => /\ metrics.body_lean = None
                   /\ metrics.spine_curve = None
          /\ (~AllUsable(pose_result, Ears) /\ ~AllUsable(pose_result, Eyes))
                => metrics.head_tilt = None
          /\ (~AllUsable(pose_result, Ears) /\ ~Usable(pose_result, "nose"))
                => metrics.neck_angle = None

(***************************************************************************)
(* Claims about the comparison of two recorded sequences.                  *)
(***************************************************************************)
\* The joint has no angle in any frame of the sequence.
AbsentInEveryFrame(sequence, joint) ==
    \A i \in 1..Len(sequence.angles_history) :
        LET frame == sequence.angles_history[i] IN
        joint \notin DOMAIN frame \/ frame[joint] = None

\* The key joints that have an angle in some frame of both sequences.
PresentInBoth ==
    {joint \in {KeyJoints[i] : i \in 1..Len(KeyJoints)} :
        /\ ~AbsentInEveryFrame(The(reference), joint)
        /\ ~AbsentInEveryFrame(The(current), joint)}

\* C17: when compare_sequences returns scores, joint_scores has an entry
\* for exactly the key joints that have an angle in some frame of the
\* reference and in some frame of the practice sequence, and overall_score
\* is the arithmetic mean of those entries' scores: a key joint absent in
\* every frame of either sequence is skipped.
C17_AbsentJointSkipped ==
    (op = "compare_sequences" /\ "joint_scores" \in DOMAIN The(results)) =>
        /\ DOMAIN The(results).joint_scores = PresentInBoth
        /\ The(results).overall_score
              = IF PresentInBoth = {} THEN RatInt(0)
                ELSE LET scores == [joint \in PresentInBoth |->
                                      The(results).joint_scores[joint]]
                     IN  MeanScore(scores)

(***************************************************************************)
(* Claims about clearing the analyzer.                                     *)
(***************************************************************************)
SmoothingMethods == {"moving_average", "exponential", "last"}

\* The analyzer holds no pose and reports no value for any joint.
ReportsNothing(poses, history) ==
    /\ poses = <<>>
    /\ \A joint \in DOMAIN history : history[joint] = <<>>
    /\ \A joint \in Joints :
          /\ \A method \in SmoothingMethods :
                GetSmoothedAngle(history, SmoothingWindow, joint, method)
                  = None
          /\ GetAngleStatistics(history, joint) = EmptyDict

\* C18: clear_history leaves the pose history and every per-joint angle
\* history empty, so that get_smoothed_angle and get_angle_statistics report
\* no value for any joint from then until the next update, and it leaves
\* the tracker's state, rep_count and frame counter as they were.
C18_ClearLeavesTracker ==
    /\ [](fed = <<>> => ReportsNothing(pose_history, angle_history))
    /\ [][(fed # <<>> /\ fed' = <<>>)
            => /\ ReportsNothing(pose_history', angle_history')
               /\ tracker' = tracker]_vars

\* The history was cleared after the tracker had counted a repetition.
C18_Witness ==
    /\ fed = <<>> /\ pose_history = <<>> /\ angle_history = EmptyDict
    /\ tracker.rep_count = 1 /\ tracker.state = "down"
    /\ tracker.last_state_change = 1

(***************************************************************************)
(* Claims about the DTW recurrence.                                        *)
(***************************************************************************)
\* The monotone warping paths from cell <<1, 1>> to cell <<i, j>>: each
\* step advances the first index, the second, or both, by one.
RECURSIVE WarpingPaths(_, _)
WarpingPaths(i, j) ==
    IF i = 1 /\ j = 1 THEN {<< <<1, 1>> >>}
    ELSE LET before ==
               (IF i > 1 THEN WarpingPaths(i - 1, j) ELSE {})
                 \cup (IF j > 1 THEN WarpingPaths(i, j - 1) ELSE {})
                 \cup (IF i > 1 /\ j > 1 THEN WarpingPaths(i - 1, j - 1)
                                          ELSE {})
         IN  {Append(path, <<i, j>>) : path \in before}

\* The sum of |a[i] - b[j]| over the cells of a path.
PathCost(a, b, path) ==
    SumSeq([k \in 1..Len(path) |-> Abs(a[path[k][1]] - b[path[k][2]])])

LeastPathCost(a, b) ==
    LET costs == {PathCost(a, b, path) :
                    path \in WarpingPaths(Len(a), Len(b))}
    IN  CHOOSE c \in costs : \A d \in costs : c <= d

\* C20: for non-empty a and b, dtw_distance(a, b) is the least sum of
\* |a[i] - b[j]| over the monotone warping paths from (1,1) to (n,m) with
\* steps (1,0), (0,1) and (1,1).
C20_DistanceIsLeastPathCost ==
    (dtw_out # None /\ seq1 # <<>> /\ seq2 # <<>>)
        => The(dtw_out).distance = Fin(LeastPathCost(seq1, seq2))

\* Sequences of different lengths whose best path repeats an element of the
\* shorter one, and whose diagonal-first path costs more.
C20_Witness ==
    /\ dtw_out # None
    /\ seq1 = <<0, 45, 180>> /\ seq2 = <<0, 180>>
    /\ The(dtw_out).distance = Fin(45)
    /\ PathCost(seq1, seq2, << <<1, 1>>, <<2, 2>>, <<3, 2>> >>) = 135

(***************************************************************************)
(* Claims about one step of the repetition state machines.                 *)
(***************************************************************************)
\* The loop of detect_rep_count after the whole history `as`.
LoopAfter(as) ==
    RepLoop(as, Len(as), threshold_low, threshold_high, min_frames)

\* C21: on every frame, in the tracker and in the loop of detect_rep_count
\* alike, the count grows by exactly 1 and the state becomes Low ("down")
\* when the step is taken in High ("up") with angle <= threshold_low and at
\* least min_frames frames counted in the state; on every other step the
\* count stays, and a step in High with angle <= threshold_low and fewer
\* frames goes to Idle.
C21_CountOnlyOnDwelledReturn ==
    [][(angles' # angles /\ angles' # <<>>) =>
         LET angle == angles'[Len(angles')]
             s == LoopAfter(angles)
             s2 == LoopAfter(angles')
         IN  /\ IF tracker.state = "up" /\ angle <= threshold_low
                THEN IF tracker.last_state_change >= min_frames
                       THEN /\ tracker'.rep_count = tracker.rep_count + 1
                            /\ tracker'.state = "down"
                       ELSE /\ tracker'.rep_count = tracker.rep_count
                            /\ tracker'.state = "idle"
                ELSE tracker'.rep_count = tracker.rep_count
             /\ IF s.state = "high" /\ angle <= threshold_low
                THEN IF s.frames_in_state >= min_frames
                       THEN s2.reps = s.reps + 1 /\ s2.state = "low"
                       ELSE s2.reps = s.reps /\ s2.state = "idle"
                ELSE s2.reps = s.reps]_vars

\* The frame just fed completed a repetition in both machines, each having
\* stayed min_frames = 2 frames in its High state.
C21_Witness ==
    /\ min_frames = 2 /\ angles # <<>>
    /\ angles[Len(angles)] <= threshold_low
    /\ tracker.rep_count = 1 /\ tracker.state = "down"
    /\ tracker.last_state_change = 0
    /\ LoopAfter(angles).reps = 1
    /\ LoopAfter(angles).state = "low"
    /\ LoopAfter(angles).frames_in_state = 1

(***************************************************************************)
(* Claims about the real-time feedback.                                    *)
(***************************************************************************)
\* C22: get_real_time_feedback returns an error result when there is no
\* reference (none, or one without a frame); otherwise the index
\* min(frames of reference - 1, frames of current), with 0 for an absent
\* practice sequence, is a position of reference.angles_history and the
\* call returns the feedback read from the frame at that index.
C22_FeedbackReadsValidFrame ==
    op = "get_real_time_feedback" =>
        LET outcome == The(results).outcome
            no_reference == IF reference = None THEN TRUE
                            ELSE NumFrames(reference) = 0
        IN  /\ outcome.raised = None
            /\ IF no_reference
                 THEN DOMAIN The(outcome.value) = {"error"}
                 ELSE LET cur_len == IF current = None THEN 0
                                     ELSE NumFrames(current)
                          ref_idx == IF NumFrames(reference) - 1 < cur_len
                                       THEN NumFrames(reference) - 1
                                       ELSE cur_len
                      IN  /\ ref_idx \in 0..(NumFrames(reference) - 1)
                          /\ The(outcome.value)
                               = FeedbackOf(
                                   CalculateAllAngles(
                                     PoseResult(The(results).pose)),
                                   The(reference).angles_history[ref_idx + 1])

(***************************************************************************)
(* Claims about the head tilt.                                             *)
(***************************************************************************)
\* C23: with r the arctangent angle of the line from the left ear to the
\* right ear, calculate_head_tilt returns r when |r| < 90 and otherwise r
\* shifted by 180 toward zero, and the value t returned satisfies
\* -90 < t <= 90.
C23_HeadTiltFolded ==
    (call # None /\ ret # None /\ The(call).fn = "calculate_head_tilt") =>
        LET r == Arctan2Degrees(The(call).offset[2], The(call).offset[1])
            t == The(The(The(ret).value))
        IN  /\ t = IF Abs(r) < 90 THEN r
                   ELSE IF r > 0 THEN r - 180 ELSE r + 180
            /\ -90 < t /\ t <= 90

(***************************************************************************)
(* Claims about the smoothed angle.                                        *)
(***************************************************************************)
\* The history the call finds for its joint: <<>> when it has none.
HistoryOfCall ==
    IF The(call).joint \in DOMAIN The(call).history
      THEN The(call).history[The(call).joint] ELSE <<>>

IsConstant(q) == \A i \in 1..Len(q) : q[i] = q[1]

\* The moving average is absent without history and else the mean of the
\* last min(smoothing_window, len) entries.
MovingAverageIsWindowMean ==
    LET q == HistoryOfCall
        smoothed == The(The(ret).value)
    IN  IF q = <<>> THEN smoothed = None
        ELSE The(call).method = "moving_average" =>
               LET last == LastN(q, The(call).smoothing_window) IN
               /\ smoothed # None
               /\ The(smoothed).exact = Rat(SumSeq(last), Len(last))

SmoothedCallDone ==
    call # None /\ ret # None /\ The(call).fn = "get_smoothed_angle"

\* C24 (as stated): the moving average is absent without history and else
\* the mean of the last min(smoothing_window, len) entries; over a history
\* whose entries all equal c, the moving average and the exponential method
\* both return c.
C24_ConstantSmoothedExactly ==
    SmoothedCallDone =>
        /\ MovingAverageIsWindowMean
        /\ (HistoryOfCall # <<>> /\ IsConstant(HistoryOfCall))
              => The(The(ret).value)
                   = Some([exact |-> RatInt(HistoryOfCall[1]), ulps |-> 0])

\* C24 (amended): the moving average is absent without history and else
\* the mean of the last min(smoothing_window, len) entries; over a history
\* whose entries all equal a whole number c the moving average returns c,
\* and the exponential method returns c up to floating-point rounding, and
\* exactly c when the history has one entry or alpha = 2 / (window + 1) is
\* a power of two.
C24_ConstantSmoothedUpToRounding ==
    SmoothedCallDone =>
        /\ MovingAverageIsWindowMean
        /\ (HistoryOfCall # <<>> /\ IsConstant(HistoryOfCall))
              => LET smoothed == The(The(The(ret).value)) IN
                 /\ smoothed.exact = RatInt(HistoryOfCall[1])
                 /\ (The(call).method = "moving_average"
                       \/ Len(HistoryOfCall) = 1
                       \/ PowerOfTwo(The(call).smoothing_window + 1))
                      => smoothed.ulps = 0

\* The exponential method over [60, 60] with window 5 returned 60 and one
\* unit in the last place.
C24_Witness ==
    /\ SmoothedCallDone
    /\ The(call).method = "exponential" /\ The(call).smoothing_window = 5
    /\ HistoryOfCall = <<60, 60>>
    /\ The(The(ret).value) = Some([exact |-> RatInt(60), ulps |-> 1])

(***************************************************************************)
(* Claims about the ownership of the two sequences.                        *)
(***************************************************************************)
PracticeOps == {"start_practice", "add_practice_frame", "stop_practice"}

ReferenceOps == {"start_recording_reference", "add_reference_frame",
                 "stop_recording_reference"}

\* What add_*_frame makes of the optional sequence `o`: nothing when there
\* is no sequence, one more frame at the end otherwise.
AppendedWhileExists(o, after) ==
    IF o = None THEN after = None
    ELSE /\ after # None
         /\ Len(The(after).poses) = Len(The(o).poses) + 1
         /\ Len(The(after).angles_history) = Len(The(o).angles_history) + 1
         /\ Len(The(after).timestamps) = Len(The(o).timestamps) + 1
         /\ SubSeq(The(after).angles_history, 1, Len(The(o).angles_history))
              = The(o).angles_history

\* C25: the practice operations leave the reference sequence as it is and
\* the recording operations leave the practice sequence as it is; a frame
\* is appended to a sequence only while that sequence exists.
C25_SequencesIndependent ==
    [][/\ op' \in PracticeOps => reference' = reference
       /\ op' \in ReferenceOps => current' = current
       /\ op' = "add_reference_frame"
            => AppendedWhileExists(reference, reference')
       /\ op' = "add_practice_frame"
            => AppendedWhileExists(current, current')]_vars

\* A practice frame was appended next to a recorded reference, and no
\* reference frame can be appended once the reference is gone.
C25_Witness ==
    /\ op = "add_practice_frame"
    /\ reference # None /\ current # None
    /\ NumFrames(reference) = 2 /\ NumFrames(current) = 2
    /\ Len(The(reference).poses) = 2
    /\ The(reference).angles_history[1] # The(current).angles_history[1]

(***************************************************************************)
(* Claims about the length of a sequence.                                  *)
(***************************************************************************)
\* len(sequence) counts the entries of angles_history and of timestamps.
LenCountsFrames(sequence) ==
    /\ SeqLen(sequence) = Len(sequence.angles_history)
    /\ SeqLen(sequence) = Len(sequence.timestamps)

\* C26: for the sequence built by add_frame and for the sequence loaded
\* from the file it was saved to, len() equals the number of entries of
\* angles_history and of timestamps; a sequence loaded from a file saved
\* with k >= 1 frames has length k and is truthy, as compare_sequences,
\* get_real_time_feedback and the keys 'p' and 's' test it.
C26_LenCountsFrames ==
    /\ LenCountsFrames(test_sequence)
    /\ loaded # None =>
          /\ LenCountsFrames(The(loaded))
          /\ SeqLen(The(loaded)) = SeqLen(test_sequence)
          /\ SeqLen(test_sequence) >= 1 => Truthy(loaded)

(***************************************************************************)
(* Claims about the modes of the dance-coach session.                      *)
(***************************************************************************)
\* C27: in the main loop, whenever recording_reference is true the coach
\* has a reference sequence and whenever practicing is true it has a
\* practice sequence, so that the status text of a frame, which takes
\* len(coach.reference) or len(coach.current), never raises TypeError.
C27_ModesHaveSequences ==
    /\ recording_reference => reference # None
    /\ practicing => current # None
    /\ pc # "TypeError"

\* C28: in the main loop, an iteration that handles key 'p' while practicing
\* is true ends practice mode: practicing becomes false and the practice
\* sequence is released, whatever became of the reference.
C28_PressPEndsPractice ==
    [][(PressP /\ practicing /\ pc' = "loop")
         => (~practicing' /\ current' = None)]_vars

(***************************************************************************)
(* Claims about the number of repetitions a history can hold.              *)
(***************************************************************************)
\* C29: for min_frames >= 1, the count r that detect_rep_count returns over
\* a history of L >= 1 angles satisfies 2 * r * min_frames < L; hence over
\* a history no longer than 3 * min_frames (capacity 30 with min_frames 10)
\* it returns at most 1.
C29_RepsBoundedByLength ==
    (min_frames >= 1 /\ angles # <<>>) =>
        /\ 2 * batch_reps * min_frames < Len(angles)
        /\ Len(angles) <= 3 * min_frames => batch_reps <= 1

\* A history that holds as many repetitions as its length allows: two of
\* them, with min_frames = 2, in 2 * 2 * 2 + 1 frames.
C29_Witness ==
    min_frames = 2 /\ batch_reps = 2 /\ Len(angles) = 9

(***************************************************************************)
(* Claims about sequences played at another speed.                         *)
(***************************************************************************)
\* b is a stretched copy of a: each element of a repeated one or more times
\* consecutively, in order.
RECURSIVE IsStretchedCopy(_, _)
IsStretchedCopy(a, b) ==
    IF a = <<>> \/ b = <<>> THEN FALSE
    ELSE IF a[1] # b[1] THEN FALSE
    ELSE IF Tail(b) = <<>> THEN Tail(a) = <<>>
    ELSE IF IsStretchedCopy(a, Tail(b)) THEN TRUE
    ELSE IsStretchedCopy(Tail(a), Tail(b))

\* C30: for every non-empty sequence a and every stretched copy b of it,
\* dtw_distance(a, b) = dtw_distance(b, a) = 0, and the pair scores 100,
\* whether the score is taken over the first length or, as
\* test_dtw_algorithm does, over the mean of the two lengths.
C30_TimeWarpInvariant ==
    (/\ dtw_out # None
     /\ IF IsStretchedCopy(seq1, seq2) THEN TRUE
        ELSE IsStretchedCopy(seq2, seq1))
        => /\ The(dtw_out).distance = Fin(0)
           /\ The(dtw_out).score = RatInt(100)
           /\ NormalizeScore(The(dtw_out).distance,
                             Rat(Len(seq1) + Len(seq2), 2)) = RatInt(100)

\* A two-element sequence against a copy that repeats its first and its
\* last element, the shape of the time-shifted pair of test_dtw_algorithm.
C30_Witness ==
    /\ dtw_out # None
    /\ seq1 = <<0, 45>> /\ seq2 = <<0, 0, 45, 45>>
    /\ IsStretchedCopy(seq1, seq2) /\ ~IsStretchedCopy(seq2, seq1)
    /\ The(dtw_out).distance = Fin(0)

\* The same pair with the stretched copy first.
C30_WitnessReversed ==
    /\ dtw_out # None
    /\ seq1 = <<0, 45, 45, 180>> /\ seq2 = <<0, 45, 180>>
    /\ IsStretchedCopy(seq2, seq1)
    /\ The(dtw_out).distance = Fin(0)

====
